---- MODULE Spec2Model ----
(***************************************************************************)
(* A model of the OpenFlow control-plane core of ofproto/ofproto.c: the    *)
(* flow table and the flow_mod handlers, the message dispatcher with its   *)
(* role checks, and the port table kept in step with the datapath.         *)
(***************************************************************************)
EXTENDS Integers, Sequences, FiniteSets, TLC

VARIABLES
    cls,            \* ofproto->cls: the set of rules in the classifier
    now,            \* time_msec()
    role,           \* per ofconn: NX_ROLE_OTHER / NX_ROLE_MASTER / NX_ROLE_SLAVE
    miss_send_len,  \* per ofconn
    drop_frags,     \* provider state behind get_drop_frags / set_drop_frags
    inbox,          \* per ofconn: messages received and not yet dispatched
    arrivals,       \* per ofconn: number of messages that have arrived
    sent,           \* per ofconn: messages put on the connection by the last step
    last,           \* what the last step was and what it returned
    ports,          \* ofproto->ports: hmap of ofport records
    port_by_name,   \* ofproto->port_by_name: shash of <<name, ofport>> entries
    dp,             \* the datapath's own port set, as port_dump / port_query report it
    devs,           \* the network devices, by name: MAC, flags, carrier, features
    netdevs,        \* the netdev descriptors that are open
    initialized,    \* init_ports has run (ofproto_create has returned)
    all_ofprotos,   \* the hmap all_ofprotos: the switches ofproto_lookup can find
    ofprotos,       \* the struct ofproto objects allocated and not yet deallocated
    run_pc,         \* where the call of ofproto_run in progress stands, or "idle"
    port_changes,   \* provider state: the port changes port_poll has yet to report
    failing,        \* provider state: something has gone wrong and port_poll fails
    netdev_changes  \* the netdev monitor: the devices netdev_monitor_poll has yet to name

vars == <<cls, now, role, miss_send_len, drop_frags, inbox, arrivals, sent, last,
          ports, port_by_name, dp, devs, netdevs, initialized,
          all_ofprotos, ofprotos, run_pc, port_changes, failing, netdev_changes>>

flowVars == <<cls, now>>
connVars == <<role, miss_send_len, drop_frags>>
portVars == <<ports, port_by_name, dp, devs, netdevs, initialized>>
switchVars == <<all_ofprotos, ofprotos>>
runVars == <<run_pc, port_changes, failing, netdev_changes>>

\* no call of ofproto_run is in progress and the provider has nothing to report
InitRun ==
    /\ run_pc = "idle"
    /\ port_changes = <<>>
    /\ failing = FALSE
    /\ netdev_changes = <<>>

----------------------------------------------------------------------------
(* Bounds of the model. *)

MaxRules == 2        \* the provider's table holds at most this many rules
PacketLen == 64      \* every packet is this many bytes long
MaxTicks == 1        \* clock ticks of one second each
MaxPackets == 1      \* packets the datapath credits to one rule
MaxInbox == 2        \* undispatched messages per connection
MaxArrivals == 3     \* messages per connection over a run

(* Program constants. *)

UINT16_MAX == 65535
OFPP_NONE == 65535

HiddenPriority == UINT16_MAX + 1
Wild == -1

----------------------------------------------------------------------------
(* Matches and flows: two header fields of one bit each.  A flow gives     *)
(* every field a value; a match gives a field a value or wildcards it.     *)

FieldVals == {0, 1}
Flows == {<<a, b>> : a \in FieldVals, b \in FieldVals}
Matches == {<<a, b>> : a \in FieldVals \cup {Wild}, b \in FieldVals \cup {Wild}}

\* cls_rule_match: does match m cover the concrete flow f
flow_matches(m, f) == \A i \in 1..2 : m[i] = Wild \/ m[i] = f[i]

\* the cursor's test: is match m at least as specific as target
match_subsumed(m, target) == \A i \in 1..2 : target[i] = Wild \/ target[i] = m[i]

\* the two matches have a concrete flow in common
match_overlap(m1, m2) == \E f \in Flows : flow_matches(m1, f) /\ flow_matches(m2, f)

\* classifier_find_rule_exactly: the rules with this match and priority
classifier_find_rule_exactly(c, m, p) == {r \in c : r.match = m /\ r.priority = p}

\* classifier_rule_overlaps: some rule at the same priority overlaps m
classifier_rule_overlaps(c, m, p) ==
    \E r \in c : r.priority = p /\ match_overlap(r.match, m)

\* classifier_lookup: scan the priorities from the highest down and stop at the
\* first one that holds a rule matching f (empty when the scan runs out)
RECURSIVE lookup_scan(_, _, _)
lookup_scan(c, f, prios) ==
    IF prios = {}
    THEN {}
    ELSE LET top == CHOOSE p \in prios : \A q \in prios : q <= p
             hits == {r \in c : r.priority = top /\ flow_matches(r.match, f)}
         IN IF hits # {} THEN hits ELSE lookup_scan(c, f, prios \ {top})

classifier_lookup(c, f) == lookup_scan(c, f, {r.priority : r \in c})

\* cls_cursor_init + CLS_CURSOR_FOR_EACH: the rules a cursor on target visits
cls_cursor(c, target) == {r \in c : match_subsumed(r.match, target)}

\* classifier_insert: put r in, taking out any rule with the same match and priority
classifier_insert(c, r) ==
    (c \ classifier_find_rule_exactly(c, r.match, r.priority)) \cup {r}

----------------------------------------------------------------------------
(* Rules. *)

rule_is_hidden(r) == r.priority > UINT16_MAX

rule_has_out_port(r, out_port) ==
    \/ out_port = OFPP_NONE
    \/ \E i \in 1..Len(r.actions) : r.actions[i] = out_port

NewRule(m, p, actions, idle, hard, cookie, sfr, t) ==
    [match |-> m, priority |-> p, flow_cookie |-> cookie, actions |-> actions,
     idle_timeout |-> idle, hard_timeout |-> hard, send_flow_removed |-> sfr,
     created |-> t, packet_count |-> 0, byte_count |-> 0]

\* ->rule_construct() of a provider that inserts without taking the old rule out
rule_construct_keep_old(c, r, prov) ==
    IF prov # "ok"
    THEN [err |-> "OFPBAC_BAD_ARGUMENT", cls |-> c]
    ELSE [err |-> "OK", cls |-> c \cup {r}]

\* ->rule_construct(): refuse, or replace the rule with the same match and priority
\* prov is the provider's verdict: "ok", "alloc_fail" or "construct_fail"
rule_construct(c, r, prov) ==
    IF prov # "ok"
    THEN [err |-> "OFPBAC_BAD_ARGUMENT", cls |-> c]
    ELSE IF Cardinality(classifier_insert(c, r)) > MaxRules
    THEN [err |-> "OFPFMFC_ALL_TABLES_FULL", cls |-> c]
    ELSE [err |-> "OK", cls |-> classifier_insert(c, r)]

\* rule_create once ->rule_construct() has answered rc: on an error
\* ofproto_rule_destroy__ hands the rule back to ->rule_dealloc().  The calls
\* carry what ->rule_alloc() and ->rule_construct() returned; a
\* ->rule_construct() that takes the place of a rule with the same match and
\* priority destroys that rule with ofproto_rule_destroy() before it returns
\* a rule_create that destructs the rule whose construct has failed
rule_create_constructed_destructs(c, m, p, rc) ==
    [err |-> rc.err, cls |-> rc.cls,
     calls |-> <<<<"rule_alloc", m, p, "OK">>>>
               \o (IF rc.err = "OK" /\ classifier_find_rule_exactly(c, m, p) # {}
                   THEN <<<<"rule_destruct", m, p>>, <<"rule_dealloc", m, p>>>>
                   ELSE <<>>)
               \o <<<<"rule_construct", m, p, rc.err>>>>
               \o (IF rc.err # "OK"
                   THEN <<<<"rule_destruct", m, p>>, <<"rule_dealloc", m, p>>>>
                   ELSE <<>>)]

rule_create_constructed(c, m, p, rc) ==
    [err |-> rc.err, cls |-> rc.cls,
     calls |-> <<<<"rule_alloc", m, p, "OK">>>>
               \o (IF rc.err = "OK" /\ classifier_find_rule_exactly(c, m, p) # {}
                   THEN <<<<"rule_destruct", m, p>>, <<"rule_dealloc", m, p>>>>
                   ELSE <<>>)
               \o <<<<"rule_construct", m, p, rc.err>>>>
               \o (IF rc.err # "OK" THEN <<<<"rule_dealloc", m, p>>>> ELSE <<>>)]

\* a rule that takes over the creation time and the counters of the rule
\* it replaces
rule_create_inherit(c, m, p, actions, idle, hard, cookie, sfr, t, prov) ==
    IF prov = "alloc_fail"
    THEN [err |-> "ENOMEM", cls |-> c, calls |-> <<<<"rule_alloc", m, p, "NULL">>>>]
    ELSE LET olds == classifier_find_rule_exactly(c, m, p)
             new == NewRule(m, p, actions, idle, hard, cookie, sfr, t)
             rc == rule_construct(c,
                      IF olds = {} THEN new
                      ELSE [new EXCEPT
                               !.created = (CHOOSE o \in olds : TRUE).created,
                               !.packet_count = (CHOOSE o \in olds : TRUE).packet_count],
                      prov)
         IN rule_create_constructed(c, m, p, rc)

\* rule_create: the error, the classifier, and the provider's functions
\* called, each with the match and the priority of the rule it is given
rule_create(c, m, p, actions, idle, hard, cookie, sfr, t, prov) ==
    IF prov = "alloc_fail"
    THEN [err |-> "ENOMEM", cls |-> c, calls |-> <<<<"rule_alloc", m, p, "NULL">>>>]
    ELSE rule_create_constructed(c, m, p,
             rule_construct(c, NewRule(m, p, actions, idle, hard, cookie, sfr, t), prov))

\* ->rule_execute(): the packet is credited to the rule
rule_execute(c, r) ==
    (c \ {r}) \cup
    {[r EXCEPT !.packet_count = IF @ < MaxPackets THEN @ + 1 ELSE @,
               !.byte_count = IF r.packet_count < MaxPackets THEN @ + PacketLen ELSE @]}

\* ->rule_remove() then ofproto_rule_destroy()
ofproto_rule_remove(c, r) == c \ {r}

\* a call of one of the provider's or the connection manager's functions on rule r
Call(name, r) == <<name, r.match, r.priority>>

\* what ofproto_rule_remove calls: ->rule_remove(), then ->rule_destruct() and
\* ->rule_dealloc() from ofproto_rule_destroy
ofproto_rule_remove_calls(r) ==
    <<Call("rule_remove", r), Call("rule_destruct", r), Call("rule_dealloc", r)>>

----------------------------------------------------------------------------
(* Flow-removed notifications. *)

OK == "OK"
Errnos == {"ENOMEM", "ENODEV", "EINVAL"}

\* calc_flow_duration__
calc_flow_duration_sec(start, t) == (t - start) \div 1000
calc_flow_duration_nsec(start, t) == ((t - start) % 1000) * (1000 * 1000)

\* ofproto_rule_send_removed that pays no heed to the rule's flag
ofproto_rule_send_removed_always(r, reason, t) ==
    IF rule_is_hidden(r)
    THEN <<>>
    ELSE <<[type |-> "FLOW_REMOVED", match |-> r.match, priority |-> r.priority,
            cookie |-> r.flow_cookie, reason |-> reason,
            duration_sec |-> calc_flow_duration_sec(r.created, t),
            duration_nsec |-> calc_flow_duration_nsec(r.created, t),
            idle_timeout |-> r.idle_timeout, packet_count |-> r.packet_count,
            byte_count |-> r.byte_count]>>

\* ofproto_rule_send_removed: the messages it hands to connmgr_send_flow_removed
ofproto_rule_send_removed(r, reason, t) ==
    IF rule_is_hidden(r) \/ ~r.send_flow_removed
    THEN <<>>
    ELSE <<[type |-> "FLOW_REMOVED", match |-> r.match, priority |-> r.priority,
            cookie |-> r.flow_cookie, reason |-> reason,
            duration_sec |-> calc_flow_duration_sec(r.created, t),
            duration_nsec |-> calc_flow_duration_nsec(r.created, t),
            idle_timeout |-> r.idle_timeout, packet_count |-> r.packet_count,
            byte_count |-> r.byte_count]>>

\* what ofproto_rule_send_removed calls
ofproto_rule_send_removed_calls(r) ==
    IF rule_is_hidden(r) \/ ~r.send_flow_removed
    THEN <<>>
    ELSE <<Call("rule_get_stats", r), Call("connmgr_send_flow_removed", r)>>

\* ofconn_pktbuf_retrieve: no buffer asked for, a buffered packet, or an unknown id
ofconn_pktbuf_retrieve(buffer_id) ==
    CASE buffer_id = "NONE" -> [err |-> OK, packet |-> FALSE]
      [] buffer_id = "VALID" -> [err |-> OK, packet |-> TRUE]
      [] OTHER -> [err |-> "OFPBRC_BUFFER_UNKNOWN", packet |-> FALSE]

----------------------------------------------------------------------------
(* The flow_mod commands.  Each returns the error it returns in the code,  *)
(* the classifier it leaves, and the flow-removed messages it emits.  env  *)
(* holds what the provider answers: env.prov for rule_alloc and            *)
(* rule_construct, env.modfail the rules whose rule_modify_actions fails,  *)
(* env.order the order in which a cursor visits the classifier.            *)

\* add_flow that never checks for overlap
add_flow_unchecked(c, fm, t, env) ==
    LET buf == ofconn_pktbuf_retrieve(fm.buffer_id)
        rc == rule_create(c, fm.match, fm.priority, fm.actions, fm.idle_timeout,
                          fm.hard_timeout, fm.cookie,
                          "SEND_FLOW_REM" \in fm.flags, t, env.prov)
        rule == NewRule(fm.match, fm.priority, fm.actions, fm.idle_timeout,
                        fm.hard_timeout, fm.cookie, "SEND_FLOW_REM" \in fm.flags, t)
    IN IF rc.err # OK
       THEN [err |-> rc.err, cls |-> c, out |-> <<>>, calls |-> rc.calls]
       ELSE [err |-> buf.err,
             cls |-> IF buf.packet THEN rule_execute(rc.cls, rule) ELSE rc.cls,
             out |-> <<>>,
             calls |-> rc.calls \o (IF buf.packet THEN <<Call("rule_execute", rule)>>
                                    ELSE <<>>)]

\* add_flow once rule_create has answered rc: the buffered packet, if the
\* request names one, is executed on the new rule
add_flow_created(c, fm, t, rc, buf, rule) ==
    IF rc.err # OK
    THEN [err |-> rc.err, cls |-> c, out |-> <<>>, calls |-> rc.calls]
    ELSE [err |-> buf.err,
          cls |-> IF buf.packet THEN rule_execute(rc.cls, rule) ELSE rc.cls,
          out |-> <<>>,
          calls |-> rc.calls \o (IF buf.packet THEN <<Call("rule_execute", rule)>>
                                 ELSE <<>>)]

add_flow(c, fm, t, env) ==
    IF "CHECK_OVERLAP" \in fm.flags /\ classifier_rule_overlaps(c, fm.match, fm.priority)
    THEN [err |-> "OFPFMFC_OVERLAP", cls |-> c, out |-> <<>>, calls |-> <<>>]
    ELSE add_flow_created(c, fm, t,
             rule_create(c, fm.match, fm.priority, fm.actions, fm.idle_timeout,
                         fm.hard_timeout, fm.cookie, "SEND_FLOW_REM" \in fm.flags, t,
                         env.prov),
             ofconn_pktbuf_retrieve(fm.buffer_id),
             NewRule(fm.match, fm.priority, fm.actions, fm.idle_timeout,
                     fm.hard_timeout, fm.cookie, "SEND_FLOW_REM" \in fm.flags, t))

find_flow_strict(c, fm) == classifier_find_rule_exactly(c, fm.match, fm.priority)

\* send_buffered_packet: the error it returns and the classifier it leaves
send_buffered_packet(c, rule, buffer_id) ==
    IF buffer_id = "NONE"
    THEN [err |-> OK, cls |-> c, calls |-> <<>>]
    ELSE LET buf == ofconn_pktbuf_retrieve(buffer_id)
         IN IF buf.err # OK
            THEN [err |-> buf.err, cls |-> c, calls |-> <<>>]
            ELSE [err |-> OK, cls |-> rule_execute(c, rule),
                  calls |-> <<Call("rule_execute", rule)>>]

\* modify_flow that leaves the cookie as it is
modify_flow_keep_cookie(fm, rule, refused) ==
    IF fm.actions = rule.actions
    THEN [err |-> OK, rule |-> rule, calls |-> <<>>]
    ELSE IF refused
    THEN [err |-> "OFPBAC_BAD_ARGUMENT", rule |-> rule,
          calls |-> <<Call("rule_modify_actions", rule)>>]
    ELSE [err |-> OK, rule |-> [rule EXCEPT !.actions = fm.actions],
          calls |-> <<Call("rule_modify_actions", rule)>>]

\* a modify_flow that takes the timeouts and the flag of the request as well
modify_flow_all(fm, rule, refused) ==
    IF refused /\ fm.actions # rule.actions
    THEN [err |-> "OFPBAC_BAD_ARGUMENT", rule |-> rule,
          calls |-> <<Call("rule_modify_actions", rule)>>]
    ELSE [err |-> OK,
          rule |-> [rule EXCEPT !.actions = fm.actions, !.flow_cookie = fm.cookie,
                                !.idle_timeout = fm.idle_timeout,
                                !.hard_timeout = fm.hard_timeout,
                                !.send_flow_removed = ("SEND_FLOW_REM" \in fm.flags)],
          calls |-> IF fm.actions = rule.actions THEN <<>>
                    ELSE <<Call("rule_modify_actions", rule)>>]

\* modify_flow: the error, and the rule as it is afterwards
modify_flow(fm, rule, refused) ==
    IF fm.actions = rule.actions
    THEN [err |-> OK, rule |-> [rule EXCEPT !.flow_cookie = fm.cookie], calls |-> <<>>]
    ELSE IF refused
    THEN [err |-> "OFPBAC_BAD_ARGUMENT", rule |-> rule,
          calls |-> <<Call("rule_modify_actions", rule)>>]
    ELSE [err |-> OK,
          rule |-> [rule EXCEPT !.actions = fm.actions, !.flow_cookie = fm.cookie],
          calls |-> <<Call("rule_modify_actions", rule)>>]

\* the CLS_CURSOR_FOR_EACH loop of modify_flows_loose, from position i of the
\* cursor's order: acc is [cls, error, match] as the loop has left them so far
RECURSIVE modify_loop(_, _, _, _, _)
modify_loop(fm, order, i, acc, env) ==
    IF i > Len(order)
    THEN acc
    ELSE LET rule == order[i]
         IN IF ~match_subsumed(rule.match, fm.match) \/ rule_is_hidden(rule)
            THEN modify_loop(fm, order, i + 1, acc, env)
            ELSE LET m == modify_flow(fm, rule, rule \in env.modfail)
                 IN modify_loop(fm, order, i + 1,
                        IF m.err = OK
                        THEN [cls |-> (acc.cls \ {rule}) \cup {m.rule},
                              error |-> acc.error, match |-> {m.rule},
                              calls |-> acc.calls \o m.calls]
                        ELSE [cls |-> acc.cls, error |-> m.err, match |-> acc.match,
                              calls |-> acc.calls \o m.calls],
                        env)

\* modify_flows_loose that does nothing when it finds no rule to modify
modify_flows_loose_only(c, fm, t, env) ==
    LET res == modify_loop(fm, env.order, 1,
                           [cls |-> c, error |-> OK, match |-> {}, calls |-> <<>>], env)
    IN IF res.error # OK
       THEN [err |-> res.error, cls |-> res.cls, out |-> <<>>, calls |-> res.calls]
       ELSE IF res.match # {}
       THEN LET sb == send_buffered_packet(res.cls, CHOOSE r \in res.match : TRUE,
                                           fm.buffer_id)
            IN [err |-> OK, cls |-> sb.cls, out |-> <<>>,
                calls |-> res.calls \o sb.calls]
       ELSE [err |-> OK, cls |-> c, out |-> <<>>, calls |-> <<>>]

\* the end of a loose MODIFY that found a rule: sb is what
\* send_buffered_packet has left, and its error is dropped
modify_sent(err, calls, sb) ==
    [err |-> err, cls |-> sb.cls, out |-> <<>>, calls |-> calls \o sb.calls]

\* modify_flows_loose once its loop has left res
modify_flows_loose_looped(c, fm, t, env, res) ==
    IF res.error # OK
    THEN [err |-> res.error, cls |-> res.cls, out |-> <<>>, calls |-> res.calls]
    ELSE IF res.match # {}
    THEN modify_sent(OK, res.calls,
             send_buffered_packet(res.cls, CHOOSE r \in res.match : TRUE, fm.buffer_id))
    ELSE add_flow(c, fm, t, env)

modify_flows_loose(c, fm, t, env) ==
    modify_flows_loose_looped(c, fm, t, env,
        modify_loop(fm, env.order, 1,
                    [cls |-> c, error |-> OK, match |-> {}, calls |-> <<>>], env))

modify_flow_strict(c, fm, t, env) ==
    LET found == find_flow_strict(c, fm)
    IN IF found # {} /\ ~rule_is_hidden(CHOOSE r \in found : TRUE)
       THEN LET rule == CHOOSE r \in found : TRUE
                m == modify_flow(fm, rule, rule \in env.modfail)
                c2 == (c \ {rule}) \cup {m.rule}
            IN IF m.err # OK
               THEN [err |-> m.err, cls |-> c, out |-> <<>>, calls |-> m.calls]
               ELSE LET sb == send_buffered_packet(c2, m.rule, fm.buffer_id)
                    IN [err |-> sb.err, cls |-> sb.cls, out |-> <<>>,
                        calls |-> m.calls \o sb.calls]
       ELSE add_flow(c, fm, t, env)

\* delete_flow that removes one rule at each request and no more
delete_flow_one_a_time(acc, rule, out_port, t) ==
    IF rule_is_hidden(rule) \/ acc.calls # <<>>
    THEN acc
    ELSE IF out_port # OFPP_NONE /\ ~rule_has_out_port(rule, out_port)
    THEN acc
    ELSE [cls |-> ofproto_rule_remove(acc.cls, rule),
          out |-> acc.out \o ofproto_rule_send_removed(rule, "OFPRR_DELETE", t),
          calls |-> acc.calls \o ofproto_rule_send_removed_calls(rule)
                    \o ofproto_rule_remove_calls(rule)]

\* delete_flow that deletes hidden rules as well
delete_flow_hidden_too(acc, rule, out_port, t) ==
    IF out_port # OFPP_NONE /\ ~rule_has_out_port(rule, out_port)
    THEN acc
    ELSE [cls |-> ofproto_rule_remove(acc.cls, rule),
          out |-> acc.out \o ofproto_rule_send_removed(rule, "OFPRR_DELETE", t),
          calls |-> acc.calls \o ofproto_rule_send_removed_calls(rule)
                    \o ofproto_rule_remove_calls(rule)]

\* delete_flow that takes the rule out before it sends the message
delete_flow_remove_first(acc, rule, out_port, t) ==
    IF rule_is_hidden(rule)
    THEN acc
    ELSE IF out_port # OFPP_NONE /\ ~rule_has_out_port(rule, out_port)
    THEN acc
    ELSE [cls |-> ofproto_rule_remove(acc.cls, rule),
          out |-> acc.out \o ofproto_rule_send_removed(rule, "OFPRR_DELETE", t),
          calls |-> acc.calls \o ofproto_rule_remove_calls(rule)
                    \o ofproto_rule_send_removed_calls(rule)]

\* delete_flow: acc is [cls, out, calls]
delete_flow(acc, rule, out_port, t) ==
    IF rule_is_hidden(rule)
    THEN acc
    ELSE IF out_port # OFPP_NONE /\ ~rule_has_out_port(rule, out_port)
    THEN acc
    ELSE [cls |-> ofproto_rule_remove(acc.cls, rule),
          out |-> acc.out \o ofproto_rule_send_removed(rule, "OFPRR_DELETE", t),
          calls |-> acc.calls \o ofproto_rule_send_removed_calls(rule)
                    \o ofproto_rule_remove_calls(rule)]

RECURSIVE delete_loop(_, _, _, _, _)
delete_loop(fm, order, i, acc, t) ==
    IF i > Len(order)
    THEN acc
    ELSE delete_loop(fm, order, i + 1,
                     IF match_subsumed(order[i].match, fm.match)
                     THEN delete_flow(acc, order[i], fm.out_port, t)
                     ELSE acc,
                     t)

delete_flows_loose(c, fm, t, env) ==
    LET res == delete_loop(fm, env.order, 1,
                           [cls |-> c, out |-> <<>>, calls |-> <<>>], t)
    IN [err |-> OK, cls |-> res.cls, out |-> res.out, calls |-> res.calls]

delete_flow_strict(c, fm, t, env) ==
    LET found == find_flow_strict(c, fm)
        res == IF found = {}
               THEN [cls |-> c, out |-> <<>>, calls |-> <<>>]
               ELSE delete_flow([cls |-> c, out |-> <<>>, calls |-> <<>>],
                                CHOOSE r \in found : TRUE, fm.out_port, t)
    IN [err |-> OK, cls |-> res.cls, out |-> res.out, calls |-> res.calls]

----------------------------------------------------------------------------
(* The port table.  An ofport is a record with its own identity (id); the  *)
(* hmap 'ports' holds the records, the shash 'port_by_name' holds entries  *)
(* <<name, id>>.  The datapath's port set dp holds [name, ofp_port]        *)
(* records; devs gives each device's MAC, flags, carrier and features.     *)

Names == {"eth0", "eth1"}
PortNos == {1, 2}
DevStates ==
    {[hw_addr |-> 1, up |-> TRUE, carrier |-> TRUE, curr |-> 1, advertised |-> 1,
      supported |-> 1, peer |-> 1],
     [hw_addr |-> 1, up |-> FALSE, carrier |-> FALSE, curr |-> 1, advertised |-> 1,
      supported |-> 1, peer |-> 1],
     [hw_addr |-> 2, up |-> TRUE, carrier |-> TRUE, curr |-> 2, advertised |-> 1,
      supported |-> 1, peer |-> 1]}

LeastFree(used) == CHOOSE n \in 1..(Cardinality(used) + 1) :
                       n \notin used /\ \A k \in 1..(n - 1) : k \in used

\* ofport_open: the ofp_phy_port it fills in from the device
PhyPort(q, d) ==
    [port_no |-> q.ofp_port, hw_addr |-> d.hw_addr, name |-> q.name,
     config |-> IF d.up THEN {} ELSE {"OFPPC_PORT_DOWN"},
     state |-> IF d.carrier THEN {} ELSE {"OFPPS_LINK_DOWN"},
     curr |-> d.curr, advertised |-> d.advertised,
     supported |-> d.supported, peer |-> d.peer]

PortStatus(opp, reason) == [type |-> "PORT_STATUS", reason |-> reason, desc |-> opp]

\* ofproto_get_port: the ports the hmap holds under this number
ofproto_get_port(pt, ofp_port) == {p \in pt.ports : p.ofp_port = ofp_port}

\* shash_find_data(&ofproto->port_by_name, name): the ids entered under name
shash_find(pt, name) == {e \in pt.by_name : e[1] = name}

\* an ofport_equal that compares the whole of config
ofport_equal_config(a, b) ==
    /\ a.hw_addr = b.hw_addr
    /\ a.state = b.state
    /\ a.config = b.config
    /\ a.curr = b.curr
    /\ a.advertised = b.advertised
    /\ a.supported = b.supported
    /\ a.peer = b.peer

\* ofport_equal
ofport_equal(a, b) ==
    /\ a.hw_addr = b.hw_addr
    /\ a.state = b.state
    /\ ("OFPPC_PORT_DOWN" \in a.config) = ("OFPPC_PORT_DOWN" \in b.config)
    /\ a.curr = b.curr
    /\ a.advertised = b.advertised
    /\ a.supported = b.supported
    /\ a.peer = b.peer

\* connmgr_send_port_status() is called with the port table as pt: what the
\* table holds for the port described at that moment
EmittedAt(pt, opp, reason) ==
    [reason |-> reason, desc |-> opp,
     in_ports |-> \E p \in pt.ports : p.ofp_port = opp.port_no /\ p.name = opp.name,
     in_port_by_name |-> \E e \in pt.by_name :
                            /\ e[1] = opp.name
                            /\ \E p \in pt.ports : p.id = e[2] /\ p.ofp_port = opp.port_no,
     updated |-> \E p \in pt.ports : p.opp = opp]

\* an ofport_destroy__ that leaves the netdev open
ofport_destroy__leak(pt, port) ==
    [pt EXCEPT !.ports = @ \ {port},
               !.by_name = @ \ {e \in @ : e[1] = port.name},
               !.calls = @ \o <<<<"port_dealloc", port.id>>>>]

\* ofport_destroy__: unlink from both indices, close the netdev, dealloc;
\* unlinks records each removal from an index and whether the index held
\* the port at that moment
ofport_destroy__(pt, port) ==
    [pt EXCEPT !.ports = @ \ {port},
               !.by_name = IF shash_find(pt, port.name) = {}
                           THEN @
                           ELSE @ \ {CHOOSE e \in shash_find(pt, port.name) : TRUE},
               !.unlinks = @ \o <<<<"ports", port.id, port \in pt.ports>>,
                                  <<"port_by_name", port.id,
                                    shash_find(pt, port.name) # {}>>>>,
               !.netdevs = @ \ {port.netdev},
               !.calls = @ \o <<<<"netdev_close", port.netdev>>,
                                <<"port_dealloc", port.id>>>>]

\* ofport_destroy: port_destruct, then ofport_destroy__
ofport_destroy(pt, port) ==
    ofport_destroy__([pt EXCEPT !.calls = @ \o <<<<"port_destruct", port.id>>>>], port)

\* ofport_remove: port status DELETE, then destroy
ofport_remove(pt, port) ==
    ofport_destroy([pt EXCEPT !.out = @ \o <<PortStatus(port.opp, "OFPPR_DELETE")>>,
                              !.emitted = @ \o <<EmittedAt(pt, port.opp, "OFPPR_DELETE")>>],
                   port)

\* ofport_remove_with_name
ofport_remove_with_name(pt, name) ==
    IF shash_find(pt, name) = {}
    THEN pt
    ELSE LET id == (CHOOSE e \in shash_find(pt, name) : TRUE)[2]
         IN IF \E p \in pt.ports : p.id = id
            THEN ofport_remove(pt, CHOOSE p \in pt.ports : p.id = id)
            ELSE pt

\* ofport_install: prov is the provider's answer to port_alloc / port_construct
ofport_install(pt, name, netdev, opp, prov) ==
    IF prov = "alloc_fail"
    THEN [pt EXCEPT !.netdevs = @ \ {netdev},
                    !.calls = @ \o <<<<"port_alloc", 0, "NULL">>,
                                     <<"netdev_close", netdev>>>>]
    ELSE LET ofport == [id |-> LeastFree({p.id : p \in pt.ports}
                                         \cup {e[2] : e \in pt.by_name}),
                        name |-> name, netdev |-> netdev, opp |-> opp,
                        ofp_port |-> opp.port_no]
             linked == [pt EXCEPT !.ports = @ \cup {ofport},
                                  !.by_name = @ \cup {<<name, ofport.id>>},
                                  !.calls = @ \o
                                      <<<<"port_alloc", ofport.id, OK>>,
                                        <<"port_construct", ofport.id,
                                          IF prov = "construct_fail" THEN "EINVAL" ELSE OK>>>>]
         IN IF prov = "construct_fail"
            THEN ofport_destroy__(linked, ofport)
            ELSE [linked EXCEPT !.out = @ \o <<PortStatus(opp, "OFPPR_ADD")>>,
                                !.emitted = @ \o <<EmittedAt(linked, opp, "OFPPR_ADD")>>]

\* ofport_modified: refresh the record, keep the controller's config bits
ofport_modified(pt, port, opp) ==
    LET newopp == [port.opp EXCEPT
                      !.hw_addr = opp.hw_addr,
                      !.config = (@ \ {"OFPPC_PORT_DOWN"})
                                 \cup (opp.config \cap {"OFPPC_PORT_DOWN"}),
                      !.state = opp.state, !.curr = opp.curr,
                      !.advertised = opp.advertised, !.supported = opp.supported,
                      !.peer = opp.peer]
        updated == [pt EXCEPT !.ports = (@ \ {port}) \cup {[port EXCEPT !.opp = newopp]}]
    IN [updated EXCEPT !.out = @ \o <<PortStatus(newopp, "OFPPR_MODIFY")>>,
                       !.emitted = @ \o <<EmittedAt(updated, newopp, "OFPPR_MODIFY")>>]

\* update_port that renumbers the record of a known device in place, with a
\* port-status MODIFY, when the number the datapath now reports is free
update_port_renumber(pt, name, q, d, openok, prov) ==
    IF q # {} /\ openok
    THEN LET rec == CHOOSE r \in q : TRUE
             netdev == LeastFree(pt.netdevs)
             opp == PhyPort(rec, d)
             opened == [pt EXCEPT !.netdevs = @ \cup {netdev},
                                  !.calls = @ \o <<<<"netdev_open", netdev>>>>]
             found == ofproto_get_port(opened, rec.ofp_port)
             named == {p \in pt.ports : p.name = name}
         IN IF found # {} /\ (CHOOSE p \in found : TRUE).name = name
            THEN LET port == CHOOSE p \in found : TRUE
                     m == IF ~ofport_equal(port.opp, opp)
                          THEN ofport_modified(opened, port, opp)
                          ELSE opened
                     cur == CHOOSE p \in m.ports : p.id = port.id
                 IN [m EXCEPT !.ports = (@ \ {cur}) \cup {[cur EXCEPT !.netdev = netdev]},
                              !.netdevs = @ \ {port.netdev},
                              !.calls = @ \o <<<<"netdev_close", port.netdev>>,
                                               <<"port_modified", port.id>>>>]
            ELSE IF found = {} /\ named # {}
            THEN LET port == CHOOSE p \in named : TRUE
                 IN [opened EXCEPT
                        !.ports = (@ \ {port}) \cup
                                  {[port EXCEPT !.ofp_port = rec.ofp_port, !.opp = opp,
                                                !.netdev = netdev]},
                        !.netdevs = @ \ {port.netdev},
                        !.out = @ \o <<PortStatus(opp, "OFPPR_MODIFY")>>,
                        !.calls = @ \o <<<<"netdev_close", port.netdev>>,
                                         <<"port_modified", port.id>>>>]
            ELSE LET r1 == IF found # {}
                           THEN ofport_remove(opened, CHOOSE p \in found : TRUE)
                           ELSE opened
                     r2 == ofport_remove_with_name(r1, name)
                 IN ofport_install(r2, name, netdev, opp, prov)
    ELSE ofport_remove_with_name(pt, name)

\* update_port that installs what the datapath reports without first
\* removing the port it knows under that name
update_port_keep_named(pt, name, q, d, openok, prov) ==
    IF q # {} /\ openok
    THEN LET rec == CHOOSE r \in q : TRUE
             netdev == LeastFree(pt.netdevs)
             opp == PhyPort(rec, d)
             opened == [pt EXCEPT !.netdevs = @ \cup {netdev},
                                  !.calls = @ \o <<<<"netdev_open", netdev>>>>]
             found == ofproto_get_port(opened, rec.ofp_port)
         IN IF found # {} /\ (CHOOSE p \in found : TRUE).name = name
            THEN LET port == CHOOSE p \in found : TRUE
                     m == IF ~ofport_equal(port.opp, opp)
                          THEN ofport_modified(opened, port, opp)
                          ELSE opened
                     cur == CHOOSE p \in m.ports : p.id = port.id
                 IN [m EXCEPT !.ports = (@ \ {cur}) \cup {[cur EXCEPT !.netdev = netdev]},
                              !.netdevs = @ \ {port.netdev},
                              !.calls = @ \o <<<<"netdev_close", port.netdev>>,
                                               <<"port_modified", port.id>>>>]
            ELSE LET r1 == IF found # {}
                           THEN ofport_remove(opened, CHOOSE p \in found : TRUE)
                           ELSE opened
                 IN ofport_install(r1, name, netdev, opp, prov)
    ELSE ofport_remove_with_name(pt, name)

\* update_port.  q is what port_query_by_name answers for name: a set holding
\* the datapath's record, or empty; d the device; openok whether netdev_open
\* succeeds; prov the provider's answer to port_alloc / port_construct.
update_port(pt, name, q, d, openok, prov) ==
    IF q # {} /\ openok
    THEN LET rec == CHOOSE r \in q : TRUE
             netdev == LeastFree(pt.netdevs)
             opp == PhyPort(rec, d)
             opened == [pt EXCEPT !.netdevs = @ \cup {netdev},
                                  !.calls = @ \o <<<<"netdev_open", netdev>>>>]
             found == ofproto_get_port(opened, rec.ofp_port)
         IN IF found # {} /\ (CHOOSE p \in found : TRUE).name = name
            THEN LET port == CHOOSE p \in found : TRUE
                     m == IF ~ofport_equal(port.opp, opp)
                          THEN ofport_modified(opened, port, opp)
                          ELSE opened
                     cur == CHOOSE p \in m.ports : p.id = port.id
                 IN [m EXCEPT !.ports = (@ \ {cur}) \cup {[cur EXCEPT !.netdev = netdev]},
                              !.netdevs = @ \ {port.netdev},
                              !.calls = @ \o <<<<"netdev_close", port.netdev>>,
                                               <<"port_modified", port.id>>>>]
            ELSE LET r1 == IF found # {}
                           THEN ofport_remove(opened, CHOOSE p \in found : TRUE)
                           ELSE opened
                     r2 == ofport_remove_with_name(r1, name)
                 IN ofport_install(r2, name, netdev, opp, prov)
    ELSE ofport_remove_with_name(pt, name)

\* ->port_query_by_name(): the datapath's record for name, if it has one (pref
\* settles which, should the datapath hold the name twice)
port_query_by_name(d, name, pref) ==
    LET c == {r \in d : r.name = name}
    IN IF c = {} THEN {}
       ELSE IF \E r \in c : r.ofp_port = pref
       THEN {CHOOSE r \in c : r.ofp_port = pref}
       ELSE {CHOOSE r \in c : TRUE}

\* what the provider and netdev_open answer, per device name
FailModes == {"ok", "open_fail", "alloc_fail", "construct_fail"}
\* (pref matters only while the datapath holds a name twice)
PortEnvs(names) ==
    {[pref |-> p,
      openfail |-> {n \in names : f[n] = "open_fail"},
      allocfail |-> {n \in names : f[n] = "alloc_fail"},
      constructfail |-> {n \in names : f[n] = "construct_fail"}] :
        p \in (IF \E r1, r2 \in dp : r1.name = r2.name /\ r1 # r2
                THEN PortNos ELSE {1}),
        f \in [names -> FailModes]}

PortProv(env, name) ==
    IF name \in env.allocfail THEN "alloc_fail"
    ELSE IF name \in env.constructfail THEN "construct_fail"
    ELSE "ok"

update_port_env(pt, name, d, dv, env) ==
    update_port(pt, name, port_query_by_name(d, name, env.pref), dv[name],
                name \notin env.openfail, PortProv(env, name))

\* reinit_ports: update_port for every name known here or in the datapath,
\* in the sset's order
RECURSIVE reinit_loop(_, _, _, _, _, _)
reinit_loop(pt, order, i, d, dv, env) ==
    IF i > Len(order)
    THEN pt
    ELSE reinit_loop(update_port_env(pt, order[i], d, dv, env), order, i + 1, d, dv, env)

\* reinit_ports that rescans only the names the datapath reports
reinit_names_dump_only(pt, d) == {r.name : r \in d}

reinit_names(pt, d) == {p.name : p \in pt.ports} \cup {r.name : r \in d}

\* init_ports: install every dumped port, skipping duplicates
RECURSIVE init_loop(_, _, _, _, _)
init_loop(pt, order, i, dv, env) ==
    IF i > Len(order)
    THEN pt
    ELSE LET rec == order[i]
             next ==
               IF ofproto_get_port(pt, rec.ofp_port) # {}
               THEN pt
               ELSE IF shash_find(pt, rec.name) # {}
               THEN pt
               ELSE IF rec.name \in env.openfail
               THEN pt
               ELSE LET netdev == LeastFree(pt.netdevs)
                    IN ofport_install(
                           [pt EXCEPT !.netdevs = @ \cup {netdev},
                                      !.calls = @ \o <<<<"netdev_open", netdev>>>>],
                           rec.name, netdev, PhyPort(rec, dv[rec.name]),
                           PortProv(env, rec.name))
         IN init_loop(next, order, i + 1, dv, env)

\* the sequences that list every element of S once
Orders(S) == {o \in [1..Cardinality(S) -> S] : \A i, j \in DOMAIN o : o[i] = o[j] => i = j}

----------------------------------------------------------------------------
(* Controller connections and the dispatcher. *)

Conns == {1, 2}
ofconn_get_type(c) == IF c = 1 THEN "OFCONN_PRIMARY" ELSE "OFCONN_SERVICE"
Roles == {"NX_ROLE_OTHER", "NX_ROLE_MASTER", "NX_ROLE_SLAVE"}
ConfigBits == {"OFPPC_NO_RECV", "OFPPC_NO_RECV_STP", "OFPPC_NO_FLOOD", "OFPPC_NO_FWD",
               "OFPPC_NO_PACKET_IN"}

\* the state a handler works on, with nothing sent and nothing returned yet
Pre ==
    [err |-> OK, cls |-> cls, out |-> <<>>, reply |-> <<>>, role |-> role,
     msl |-> miss_send_len, drop_frags |-> drop_frags, ports |-> ports, devs |-> devs,
     calls |-> <<>>, abort |-> FALSE]

\* a check that lets every controller through
reject_slave_controller_never(c, st) == OK

reject_slave_controller(c, st) ==
    IF ofconn_get_type(c) = "OFCONN_PRIMARY" /\ st.role[c] = "NX_ROLE_SLAVE"
    THEN "OFPBRC_EPERM"
    ELSE OK

handle_echo_request(c, msg, st) ==
    [st EXCEPT !.reply = @ \o <<[type |-> "ECHO_REPLY", xid |-> msg.xid]>>]

handle_set_config(c, msg, st) ==
    LET osc == msg.body
        frag == IF ofconn_get_type(c) = "OFCONN_PRIMARY" /\ st.role[c] # "NX_ROLE_SLAVE"
                THEN CASE osc.flags = "OFPC_FRAG_NORMAL" ->
                            [st EXCEPT !.drop_frags = FALSE,
                                       !.calls = @ \o <<"set_drop_frags">>]
                       [] osc.flags = "OFPC_FRAG_DROP" ->
                            [st EXCEPT !.drop_frags = TRUE,
                                       !.calls = @ \o <<"set_drop_frags">>]
                       [] OTHER -> st
                ELSE st
    IN [frag EXCEPT !.msl[c] = osc.miss_send_len]

\* body.actions_err is what ofputil_pull_actions returns, body.po_err what the
\* provider's packet_out returns
handle_packet_out(c, msg, st) ==
    LET opo == msg.body
        buf == ofconn_pktbuf_retrieve(opo.buffer_id)
    IN IF reject_slave_controller(c, st) # OK
       THEN [st EXCEPT !.err = reject_slave_controller(c, st)]
       ELSE IF opo.actions_err # OK
       THEN [st EXCEPT !.err = opo.actions_err]
       ELSE IF opo.buffer_id # "NONE" /\ (buf.err # OK \/ ~buf.packet)
       THEN [st EXCEPT !.err = buf.err]
       ELSE [st EXCEPT !.err = opo.po_err, !.calls = @ \o <<"packet_out">>]

\* update_port_config: the port's record and its device afterwards
update_port_config(port, dv, config, mask) ==
    LET m == mask \cap ((config \ port.opp.config) \cup (port.opp.config \ config))
        flip == m \cap ConfigBits
        newcfg == (port.opp.config \ flip) \cup (flip \ port.opp.config)
    IN [port |-> [port EXCEPT !.opp.config = newcfg],
        dev |-> IF "OFPPC_PORT_DOWN" \in m
                THEN [dv EXCEPT !.up = ("OFPPC_PORT_DOWN" \notin config)]
                ELSE dv,
        calls |-> (IF "OFPPC_PORT_DOWN" \in m THEN <<"netdev_turn_flags">> ELSE <<>>)
                  \o (IF newcfg # port.opp.config THEN <<"port_reconfigured">> ELSE <<>>)]

\* a handle_port_mod that does not compare the hardware address
handle_port_mod_any_mac(c, msg, st) ==
    LET opm == msg.body
        found == {p \in st.ports : p.ofp_port = opm.port_no}
    IN IF reject_slave_controller(c, st) # OK
       THEN [st EXCEPT !.err = reject_slave_controller(c, st)]
       ELSE IF found = {}
       THEN [st EXCEPT !.err = "OFPPMFC_BAD_PORT"]
       ELSE LET port == CHOOSE p \in found : TRUE
                u == update_port_config(port, st.devs[port.name], opm.config, opm.mask)
            IN [st EXCEPT !.ports = (@ \ {port}) \cup {u.port},
                          !.devs[port.name] = u.dev,
                          !.calls = @ \o u.calls]

handle_port_mod(c, msg, st) ==
    LET opm == msg.body
        found == {p \in st.ports : p.ofp_port = opm.port_no}
    IN IF reject_slave_controller(c, st) # OK
       THEN [st EXCEPT !.err = reject_slave_controller(c, st)]
       ELSE IF found = {}
       THEN [st EXCEPT !.err = "OFPPMFC_BAD_PORT"]
       ELSE LET port == CHOOSE p \in found : TRUE
            IN IF port.opp.hw_addr # opm.hw_addr
               THEN [st EXCEPT !.err = "OFPPMFC_BAD_HW_ADDR"]
               ELSE LET u == update_port_config(port, st.devs[port.name],
                                                opm.config, opm.mask)
                    IN [st EXCEPT
                          !.ports = (@ \ {port}) \cup {u.port},
                          !.devs[port.name] =
                              IF opm.advertise # 0
                              THEN [u.dev EXCEPT !.advertised = opm.advertise]
                              ELSE u.dev,
                          !.calls = @ \o u.calls \o
                              (IF opm.advertise # 0
                               THEN <<"netdev_set_advertisements">> ELSE <<>>)]

\* handle_flow_mod that carries out a flow_mod whatever its flags
handle_flow_mod_emerg(c, msg, st, t, env) ==
    LET fm == msg.body
        r == CASE fm.command = "OFPFC_ADD" -> add_flow(st.cls, fm, t, env)
               [] fm.command = "OFPFC_MODIFY" -> modify_flows_loose(st.cls, fm, t, env)
               [] fm.command = "OFPFC_MODIFY_STRICT" ->
                      modify_flow_strict(st.cls, fm, t, env)
               [] fm.command = "OFPFC_DELETE" -> delete_flows_loose(st.cls, fm, t, env)
               [] fm.command = "OFPFC_DELETE_STRICT" ->
                      delete_flow_strict(st.cls, fm, t, env)
               [] OTHER -> [err |-> "OFPFMFC_BAD_COMMAND", cls |-> st.cls, out |-> <<>>,
                            calls |-> <<>>]
    IN IF reject_slave_controller(c, st) # OK
       THEN [st EXCEPT !.err = reject_slave_controller(c, st)]
       ELSE IF fm.decode_err # OK
       THEN [st EXCEPT !.err = fm.decode_err]
       ELSE [st EXCEPT !.err = r.err, !.cls = r.cls, !.out = r.out, !.calls = r.calls]

\* handle_flow_mod: fm.decode_err is what ofputil_decode_flow_mod returns
\* the switch on fm.command at the end of handle_flow_mod
handle_flow_mod_command(c, fm, t, env) ==
    CASE fm.command = "OFPFC_ADD" -> add_flow(c, fm, t, env)
      [] fm.command = "OFPFC_MODIFY" -> modify_flows_loose(c, fm, t, env)
      [] fm.command = "OFPFC_MODIFY_STRICT" -> modify_flow_strict(c, fm, t, env)
      [] fm.command = "OFPFC_DELETE" -> delete_flows_loose(c, fm, t, env)
      [] fm.command = "OFPFC_DELETE_STRICT" -> delete_flow_strict(c, fm, t, env)
      [] OTHER -> [err |-> "OFPFMFC_BAD_COMMAND", cls |-> c, out |-> <<>>,
                   calls |-> <<>>]

\* the switch's state once the command has returned r
handle_flow_mod_returned(st, r) ==
    [st EXCEPT !.err = r.err, !.cls = r.cls, !.out = r.out, !.calls = r.calls]

handle_flow_mod(c, msg, st, t, env) ==
    IF reject_slave_controller(c, st) # OK
    THEN [st EXCEPT !.err = reject_slave_controller(c, st)]
    ELSE IF msg.body.decode_err # OK
    THEN [st EXCEPT !.err = msg.body.decode_err]
    ELSE IF "EMERG" \in msg.body.flags
    THEN [st EXCEPT !.err = "OFPFMFC_ALL_TABLES_FULL"]
    ELSE handle_flow_mod_returned(st, handle_flow_mod_command(st.cls, msg.body, t, env))

\* ofconn_set_role
ofconn_set_role(st, c, r) == [st EXCEPT !.role[c] = r]

handle_role_request(c, msg, st) ==
    IF ofconn_get_type(c) # "OFCONN_PRIMARY"
    THEN [st EXCEPT !.err = "OFPBRC_EPERM"]
    ELSE IF msg.body.role \notin Roles
    THEN [st EXCEPT !.err = "OFPET_BAD_REQUEST"]
    ELSE [ofconn_set_role(st, c, msg.body.role) EXCEPT
             !.reply = @ \o <<[type |-> "ROLE_REPLY", xid |-> msg.xid,
                               role |-> msg.body.role]>>]

\* a barrier handler that only takes note of the request
handle_barrier_request_silent(c, msg, st) == st

handle_barrier_request(c, msg, st) ==
    [st EXCEPT !.reply = @ \o <<[type |-> "BARRIER_REPLY", xid |-> msg.xid]>>]

\* is_valid_table that knows table 0 only
is_valid_table_zero_only(table_id) == table_id = 0

\* is_valid_table: table 0 or all tables (0xff)
is_valid_table(table_id) == table_id = 0 \/ table_id = 255

\* sizes of the structures of the wire, in bytes
sizeof_ofp_stats_reply == 12
sizeof_nicira_stats_msg == 24
sizeof_ofp_flow_stats == 88
sizeof_nx_flow_stats == 48
sizeof_ofp_action == 8
sizeof_ofp_aggregate_stats_reply == 24
sizeof_ofp_flow_mod == 72
NXM_MAX_LEN == 256

\* make_ofp_stats_reply: an empty reply; size is the size of its buffer
make_ofp_stats_reply(xid, type) ==
    [type |-> "STATS_REPLY", stat |-> type, xid |-> xid, flags |-> {},
     size |-> sizeof_ofp_stats_reply, body |-> <<>>]

\* make_nxstats_reply: stat stands for type OFPST_VENDOR, the Nicira vendor
\* id and the subtype
make_nxstats_reply(xid, subtype) ==
    [type |-> "STATS_REPLY", stat |-> subtype, xid |-> xid, flags |-> {},
     size |-> sizeof_nicira_stats_msg, body |-> <<>>]

\* a reply under construction: sent are the replies handed to
\* ofconn_send_reply so far, msg the one in progress; abort says that an
\* assert() has failed, which ends the process
StartReply(msg) == [sent |-> <<>>, msg |-> msg, calls |-> <<>>, abort |-> FALSE]

\* append_ofp_stats_reply, up to the room it makes for nbytes
append_ofp_stats_reply(nbytes, acc) ==
    IF nbytes > UINT16_MAX - sizeof_ofp_stats_reply
    THEN [acc EXCEPT !.abort = TRUE]
    ELSE IF nbytes + acc.msg.size > UINT16_MAX
    THEN [acc EXCEPT !.sent = @ \o <<[acc.msg EXCEPT !.flags = {"OFPSF_REPLY_MORE"}]>>,
                     !.msg = make_ofp_stats_reply(acc.msg.xid, acc.msg.stat)]
    ELSE acc

\* append_nxstats_reply
append_nxstats_reply(nbytes, acc) ==
    IF nbytes > UINT16_MAX - sizeof_nicira_stats_msg
    THEN [acc EXCEPT !.abort = TRUE]
    ELSE IF nbytes + acc.msg.size > UINT16_MAX
    THEN [acc EXCEPT !.sent = @ \o <<[acc.msg EXCEPT !.flags = {"OFPSF_REPLY_MORE"}]>>,
                     !.msg = make_nxstats_reply(acc.msg.xid, acc.msg.stat)]
    ELSE acc

\* ofpbuf_put_uninit and what the caller writes there: entry e of nbytes
\* bytes is at the end of the reply in progress
ofpbuf_put(acc, e, nbytes) ==
    IF acc.abort
    THEN acc
    ELSE [acc EXCEPT !.msg.size = @ + nbytes, !.msg.body = Append(@, e)]

\* the length of what nx_put_match writes for a rule of the classifier: a
\* 4-byte header and a 16-bit value for each field that is not wildcarded,
\* padded to a multiple of 8
nx_put_match_len(m) == 8 * ((6 * Cardinality({i \in 1..2 : m[i] # Wild}) + 7) \div 8)

\* a flow-stats entry that reports hidden rules like any other
put_ofp_flow_stats_all(rule, out_port, t) ==
    IF ~rule_has_out_port(rule, out_port)
    THEN <<>>
    ELSE <<[form |-> "ofp_flow_stats",
            length |-> sizeof_ofp_flow_stats + sizeof_ofp_action * Len(rule.actions),
            table_id |-> 0, match |-> rule.match,
            cookie |-> rule.flow_cookie,
            duration_sec |-> calc_flow_duration_sec(rule.created, t),
            duration_nsec |-> calc_flow_duration_nsec(rule.created, t),
            priority |-> rule.priority, idle_timeout |-> rule.idle_timeout,
            hard_timeout |-> rule.hard_timeout, packet_count |-> rule.packet_count,
            byte_count |-> rule.byte_count, actions |-> rule.actions]>>

\* put_ofp_flow_stats: the entry for rule, if it has one; length is len
\* before its conversion to 16 bits
put_ofp_flow_stats(rule, out_port, t) ==
    IF rule_is_hidden(rule) \/ ~rule_has_out_port(rule, out_port)
    THEN <<>>
    ELSE <<[form |-> "ofp_flow_stats",
            length |-> sizeof_ofp_flow_stats + sizeof_ofp_action * Len(rule.actions),
            table_id |-> 0, match |-> rule.match,
            cookie |-> rule.flow_cookie,
            duration_sec |-> calc_flow_duration_sec(rule.created, t),
            duration_nsec |-> calc_flow_duration_nsec(rule.created, t),
            priority |-> rule.priority, idle_timeout |-> rule.idle_timeout,
            hard_timeout |-> rule.hard_timeout, packet_count |-> rule.packet_count,
            byte_count |-> rule.byte_count, actions |-> rule.actions]>>

\* put_nx_flow_stats: the entry for rule, if it has one
put_nx_flow_stats(rule, out_port, t) ==
    IF rule_is_hidden(rule) \/ ~rule_has_out_port(rule, out_port)
    THEN <<>>
    ELSE <<[form |-> "nx_flow_stats",
            length |-> sizeof_nx_flow_stats + nx_put_match_len(rule.match)
                       + sizeof_ofp_action * Len(rule.actions),
            table_id |-> 0, match |-> rule.match,
            cookie |-> rule.flow_cookie,
            duration_sec |-> calc_flow_duration_sec(rule.created, t),
            duration_nsec |-> calc_flow_duration_nsec(rule.created, t),
            priority |-> rule.priority, idle_timeout |-> rule.idle_timeout,
            hard_timeout |-> rule.hard_timeout, packet_count |-> rule.packet_count,
            byte_count |-> rule.byte_count, actions |-> rule.actions]>>

\* what put_ofp_flow_stats or put_nx_flow_stats does to the reply with the
\* entry put of rule: ->rule_get_stats(), room for the entry, the entry
flow_stats_put(acc, nx, rule, put) ==
    IF put = <<>>
    THEN acc
    ELSE ofpbuf_put(
             IF nx
             THEN append_nxstats_reply(sizeof_nx_flow_stats + NXM_MAX_LEN
                                       + sizeof_ofp_action * Len(rule.actions),
                                       [acc EXCEPT !.calls = @ \o <<Call("rule_get_stats", rule)>>])
             ELSE append_ofp_stats_reply(put[1].length,
                                         [acc EXCEPT !.calls = @ \o <<Call("rule_get_stats", rule)>>]),
             put[1], put[1].length)

\* the CLS_CURSOR_FOR_EACH loop of the two flow-stats handlers, from position
\* i of the cursor's order
RECURSIVE flow_stats_loop(_, _, _, _, _, _)
flow_stats_loop(req, nx, order, i, acc, t) ==
    IF i > Len(order) \/ acc.abort
    THEN acc
    ELSE flow_stats_loop(req, nx, order, i + 1,
             IF match_subsumed(order[i].match, req.match)
             THEN flow_stats_put(acc, nx, order[i],
                      IF nx THEN put_nx_flow_stats(order[i], req.out_port, t)
                      ELSE put_ofp_flow_stats(order[i], req.out_port, t))
             ELSE acc,
             t)

\* ofconn_send_reply of the last reply: the replies are on their way, unless
\* an assert() has ended the process
stats_replied(st, acc) ==
    IF acc.abort
    THEN [st EXCEPT !.calls = acc.calls, !.abort = TRUE]
    ELSE [st EXCEPT !.reply = @ \o acc.sent \o <<acc.msg>>, !.calls = acc.calls]

handle_flow_stats_request(c, msg, st, t, env) ==
    stats_replied(st,
        IF is_valid_table(msg.body.table_id)
        THEN flow_stats_loop(msg.body, FALSE, env.order, 1,
                             StartReply(make_ofp_stats_reply(msg.xid, "OFPST_FLOW")), t)
        ELSE StartReply(make_ofp_stats_reply(msg.xid, "OFPST_FLOW")))

\* handle_nxst_flow: nfsr.decode_err is what nx_pull_match and the length
\* check make of the request
handle_nxst_flow(c, msg, st, t, env) ==
    IF msg.body.decode_err # OK
    THEN [st EXCEPT !.err = msg.body.decode_err]
    ELSE stats_replied(st,
             IF is_valid_table(msg.body.table_id)
             THEN flow_stats_loop(msg.body, TRUE, env.order, 1,
                                  StartReply(make_nxstats_reply(msg.xid, "NXST_FLOW")), t)
             ELSE StartReply(make_nxstats_reply(msg.xid, "NXST_FLOW")))

\* the loop of query_aggregate_stats without the check of the out_port
RECURSIVE aggregate_loop_any_port(_, _, _, _)
aggregate_loop_any_port(req, order, i, acc) ==
    IF i > Len(order)
    THEN acc
    ELSE aggregate_loop_any_port(req, order, i + 1,
             IF match_subsumed(order[i].match, req.match) /\ ~rule_is_hidden(order[i])
             THEN [flow_count |-> acc.flow_count + 1,
                   packet_count |-> acc.packet_count + order[i].packet_count,
                   byte_count |-> acc.byte_count + order[i].byte_count,
                   calls |-> acc.calls \o <<Call("rule_get_stats", order[i])>>]
             ELSE acc)

\* the loop of query_aggregate_stats: acc is [flow_count, packet_count,
\* byte_count, calls]
RECURSIVE aggregate_loop(_, _, _, _)
aggregate_loop(req, order, i, acc) ==
    IF i > Len(order)
    THEN acc
    ELSE LET rule == order[i]
         IN aggregate_loop(req, order, i + 1,
                IF /\ match_subsumed(rule.match, req.match)
                   /\ ~rule_is_hidden(rule)
                   /\ rule_has_out_port(rule, req.out_port)
                THEN [flow_count |-> acc.flow_count + 1,
                      packet_count |-> acc.packet_count + rule.packet_count,
                      byte_count |-> acc.byte_count + rule.byte_count,
                      calls |-> acc.calls \o <<Call("rule_get_stats", rule)>>]
                ELSE acc)

query_aggregate_stats(req, order) ==
    IF is_valid_table(req.table_id)
    THEN aggregate_loop(req, order, 1,
                        [flow_count |-> 0, packet_count |-> 0, byte_count |-> 0,
                         calls |-> <<>>])
    ELSE [flow_count |-> 0, packet_count |-> 0, byte_count |-> 0, calls |-> <<>>]

\* the reply's body once query_aggregate_stats has filled it in
aggregate_replied(st, acc, oasr) ==
    stats_replied(st,
        [acc EXCEPT !.msg.size = @ + sizeof_ofp_aggregate_stats_reply,
                    !.msg.body = [flow_count |-> oasr.flow_count,
                                  packet_count |-> oasr.packet_count,
                                  byte_count |-> oasr.byte_count],
                    !.calls = oasr.calls])

handle_aggregate_stats_request(c, msg, st, t, env) ==
    aggregate_replied(st,
        append_ofp_stats_reply(sizeof_ofp_aggregate_stats_reply,
            StartReply(make_ofp_stats_reply(msg.xid, "OFPST_AGGREGATE"))),
        query_aggregate_stats(msg.body, env.order))

handle_nxst_aggregate(c, msg, st, t, env) ==
    IF msg.body.decode_err # OK
    THEN [st EXCEPT !.err = msg.body.decode_err]
    ELSE aggregate_replied(st,
             StartReply(make_nxstats_reply(msg.xid, "NXST_AGGREGATE")),
             query_aggregate_stats(msg.body, env.order))

\* handle_openflow__: msg.type is what ofputil_decode_msg_type makes of the header
handle_openflow__(c, msg, st, t, env) ==
    CASE msg.type = "UNDECODABLE" -> [st EXCEPT !.err = "OFPBRC_BAD_LEN"]
      [] msg.type = "ECHO_REQUEST" -> handle_echo_request(c, msg, st)
      [] msg.type = "SET_CONFIG" -> handle_set_config(c, msg, st)
      [] msg.type = "PACKET_OUT" -> handle_packet_out(c, msg, st)
      [] msg.type = "PORT_MOD" -> handle_port_mod(c, msg, st)
      [] msg.type = "FLOW_MOD" -> handle_flow_mod(c, msg, st, t, env)
      [] msg.type = "BARRIER_REQUEST" -> handle_barrier_request(c, msg, st)
      [] msg.type = "ECHO_REPLY" -> st
      [] msg.type = "ROLE_REQUEST" -> handle_role_request(c, msg, st)
      [] msg.type = "OFPST_FLOW_REQUEST" -> handle_flow_stats_request(c, msg, st, t, env)
      [] msg.type = "OFPST_AGGREGATE_REQUEST" ->
             handle_aggregate_stats_request(c, msg, st, t, env)
      [] msg.type = "NXST_FLOW_REQUEST" -> handle_nxst_flow(c, msg, st, t, env)
      [] msg.type = "NXST_AGGREGATE_REQUEST" -> handle_nxst_aggregate(c, msg, st, t, env)
      [] OTHER -> [st EXCEPT !.err = "OFPBRC_BAD_TYPE"]

\* ofputil_encode_error_msg: an OpenFlow error becomes an OFPT_ERROR message
\* with the request's xid; a value that is no OpenFlow error code has no encoding
ofputil_encode_error_msg(error, msg) ==
    IF error \in Errnos
    THEN <<>>
    ELSE <<[type |-> "ERROR", xid |-> msg.xid, error |-> error, request |-> msg.type]>>

send_error_oh(c, msg, error, st) ==
    [st EXCEPT !.reply = @ \o ofputil_encode_error_msg(error, msg)]

\* handle_openflow once handle_openflow__ has left r: an error is answered
handle_openflow_returned(c, msg, r) ==
    IF r.err # OK THEN send_error_oh(c, msg, r.err, r) ELSE r

handle_openflow(c, msg, st, t, env) ==
    handle_openflow_returned(c, msg, handle_openflow__(c, msg, st, t, env))

----------------------------------------------------------------------------
(* Steps of the switch. *)

\* what the provider may answer while fm is handled: only the answers the
\* command asks for vary
FlowEnvs(fm) ==
    [prov : IF fm.command \in {"OFPFC_ADD", "OFPFC_MODIFY", "OFPFC_MODIFY_STRICT"}
            THEN {"ok", "alloc_fail", "construct_fail"} ELSE {"ok"},
     modfail : IF fm.command \in {"OFPFC_MODIFY", "OFPFC_MODIFY_STRICT"}
               THEN SUBSET {r \in cls : match_subsumed(r.match, fm.match)
                                        /\ ~rule_is_hidden(r)
                                        /\ r.actions # fm.actions}
               ELSE {{}},
     order : IF fm.command \in {"OFPFC_MODIFY", "OFPFC_DELETE"}
             THEN Orders(cls) ELSE {<<>>}]

NoEnv == [prov |-> "ok", modfail |-> {}, order |-> <<>>]

Broadcast(out) == [k \in Conns |-> out]

\* connmgr_run hands one message of connection c to handle_openflow; last
\* records the call, what it returned, and how many rules the table held before
Dispatched(c, msg, r) ==
    /\ initialized
    /\ cls' = r.cls
    /\ role' = r.role
    /\ miss_send_len' = r.msl
    /\ drop_frags' = r.drop_frags
    /\ ports' = r.ports
    /\ devs' = r.devs
    /\ sent' = [k \in Conns |-> r.out \o (IF k = c THEN r.reply ELSE <<>>)]
    /\ last' = [op |-> "handle_openflow", conn |-> c, msg |-> msg, err |-> r.err,
                calls |-> r.calls, n_flows |-> Cardinality(cls), abort |-> r.abort]
    /\ initialized' = ~r.abort
    /\ UNCHANGED <<now, port_by_name, dp, netdevs, switchVars, runVars>>

Dispatch(c, msg, env) == Dispatched(c, msg, handle_openflow(c, msg, Pre, now, env))

\* a message read from the connection is dispatched at once
Receive(c, msg, env) ==
    /\ inbox[c] = <<>>
    /\ Dispatch(c, msg, env)
    /\ UNCHANGED <<inbox, arrivals>>

\* ofproto_add_flow once rule_create has returned
ofproto_add_flow_created(m, p, rc) ==
    /\ cls' = rc.cls
    /\ last' = [op |-> "ofproto_add_flow", match |-> m, priority |-> p,
                calls |-> rc.calls]

\* ofproto_add_flow: an internal rule, which never times out
ofproto_add_flow(m, p, actions, prov) ==
    /\ initialized
    /\ ofproto_add_flow_created(m, p, rule_create(cls, m, p, actions, 0, 0, 0, FALSE,
                                                  now, prov))
    /\ sent' = Broadcast(<<>>)
    /\ UNCHANGED <<now, connVars, inbox, arrivals, portVars, switchVars, runVars>>

\* ofproto_delete_flow
ofproto_delete_flow(m, p) ==
    /\ initialized
    /\ cls' = IF classifier_find_rule_exactly(cls, m, p) = {}
              THEN cls
              ELSE ofproto_rule_remove(
                       cls, CHOOSE r \in classifier_find_rule_exactly(cls, m, p) : TRUE)
    /\ sent' = Broadcast(<<>>)
    /\ last' = [op |-> "ofproto_delete_flow", match |-> m, priority |-> p,
                calls |-> IF classifier_find_rule_exactly(cls, m, p) = {}
                          THEN <<>>
                          ELSE ofproto_rule_remove_calls(
                                   CHOOSE r \in classifier_find_rule_exactly(cls, m, p) :
                                       TRUE)]
    /\ UNCHANGED <<now, connVars, inbox, arrivals, portVars, switchVars, runVars>>

\* ofproto_flush_flows: every rule is removed, hidden ones too
ofproto_flush_flows ==
    /\ initialized
    /\ cls' = {}
    /\ sent' = Broadcast(<<>>)
    /\ last' = [op |-> "ofproto_flush_flows"]
    /\ UNCHANGED <<now, connVars, inbox, arrivals, portVars, switchVars, runVars>>

\* the provider's run() expires a rule that has reached a timeout
ofproto_rule_expire(rule, reason) ==
    /\ initialized
    /\ rule \in cls
    /\ LET timeout == IF reason = "OFPRR_HARD_TIMEOUT"
                      THEN rule.hard_timeout ELSE rule.idle_timeout
       IN timeout > 0 /\ now >= rule.created + timeout * 1000
    /\ cls' = ofproto_rule_remove(cls, rule)
    /\ sent' = Broadcast(ofproto_rule_send_removed(rule, reason, now))
    /\ last' = [op |-> "ofproto_rule_expire", rule |-> rule, reason |-> reason,
                calls |-> ofproto_rule_send_removed_calls(rule)
                          \o ofproto_rule_remove_calls(rule)]
    /\ UNCHANGED <<now, connVars, inbox, arrivals, portVars, switchVars, runVars>>

\* a lookup that answers with any rule matching the flow
ofproto_rule_lookup_any(f) ==
    /\ initialized
    /\ \E found \in (IF \E r \in cls : flow_matches(r.match, f)
                      THEN {{r} : r \in {x \in cls : flow_matches(x.match, f)}}
                      ELSE {{}}) :
          last' = [op |-> "ofproto_rule_lookup", flow |-> f, found |-> found]
    /\ sent' = Broadcast(<<>>)
    /\ UNCHANGED <<cls, now, connVars, inbox, arrivals, portVars, switchVars, runVars>>

\* ofproto_rule_lookup: the rule the classifier returns for flow f
ofproto_rule_lookup(f) ==
    /\ initialized
    /\ \E found \in (IF classifier_lookup(cls, f) = {}
                      THEN {{}}
                      ELSE {{r} : r \in classifier_lookup(cls, f)}) :
          last' = [op |-> "ofproto_rule_lookup", flow |-> f, found |-> found]
    /\ sent' = Broadcast(<<>>)
    /\ UNCHANGED <<cls, now, connVars, inbox, arrivals, portVars, switchVars, runVars>>

\* the datapath credits a packet to the rule that handled it
rule_credit(r) ==
    /\ initialized
    /\ r \in cls
    /\ r.packet_count < MaxPackets
    /\ cls' = rule_execute(cls, r)
    /\ sent' = Broadcast(<<>>)
    /\ last' = [op |-> "rule_credit"]
    /\ UNCHANGED <<now, connVars, inbox, arrivals, portVars, switchVars, runVars>>

\* a second passes
Tick ==
    /\ now < MaxTicks * 1000
    /\ now' = now + 1000
    /\ sent' = Broadcast(<<>>)
    /\ last' = [op |-> "tick"]
    /\ UNCHANGED <<cls, connVars, inbox, arrivals, portVars, switchVars, runVars>>

----------------------------------------------------------------------------
(* Flow_mod requests. *)

FlowMod(cmd, m, p, prof, flags, buf, outp) ==
    [command |-> cmd, match |-> m, priority |-> p, cookie |-> prof.cookie,
     actions |-> prof.actions, idle_timeout |-> prof.idle_timeout,
     hard_timeout |-> prof.hard_timeout, flags |-> flags, buffer_id |-> buf,
     out_port |-> outp, decode_err |-> OK]

FlowModMsg(fm) == [type |-> "FLOW_MOD", xid |-> 1, body |-> fm]

PlainProfile == [cookie |-> 10, actions |-> <<2>>, idle_timeout |-> 0, hard_timeout |-> 0]

InitConn ==
    /\ role = [c \in Conns |-> "NX_ROLE_OTHER"]
    /\ miss_send_len = [c \in Conns |-> 128]
    /\ drop_frags = FALSE
    /\ inbox = [c \in Conns |-> <<>>]
    /\ arrivals = [c \in Conns |-> 0]
    /\ sent = Broadcast(<<>>)
    /\ last = [op |-> "ofproto_create"]

\* the struct ofproto of the switch whose flow table and port table the
\* model carries
Br0 == [id |-> 1, name |-> "br0", type |-> "system"]

InitNoPorts ==
    /\ all_ofprotos = {Br0}
    /\ ofprotos = {Br0}
    /\ InitRun
    /\ ports = {}
    /\ port_by_name = {}
    /\ dp = {}
    /\ devs = [n \in Names |-> CHOOSE d \in DevStates : d.hw_addr = 1 /\ d.up]
    /\ netdevs = {}
    /\ initialized = TRUE

InitFlow ==
    /\ cls = {}
    /\ now = 0
    /\ InitConn
    /\ InitNoPorts

----------------------------------------------------------------------------
(* SpecFlow: the classifier under flow_mods over many matches and two      *)
(* priorities, with hidden rules and lookups.                              *)

FlowMatches == {<<Wild, Wild>>, <<0, Wild>>, <<Wild, 1>>}
FlowPriorities == {100, 200}

FlowMods ==
    {FlowMod(cmd, m, p, PlainProfile, flags, "NONE", OFPP_NONE) :
        cmd \in {"OFPFC_ADD", "OFPFC_MODIFY", "OFPFC_MODIFY_STRICT"},
        m \in FlowMatches, p \in FlowPriorities,
        flags \in {{}, {"CHECK_OVERLAP"}}}
    \cup
    {FlowMod(cmd, m, p, PlainProfile, {}, "NONE", outp) :
        cmd \in {"OFPFC_DELETE", "OFPFC_DELETE_STRICT"},
        m \in FlowMatches, p \in FlowPriorities, outp \in {OFPP_NONE}}

NextFlow ==
    \/ \E fm \in FlowMods : \E env \in FlowEnvs(fm) : Receive(1, FlowModMsg(fm), env)
    \/ \E prov \in {"ok", "alloc_fail"} :
          ofproto_add_flow(<<Wild, Wild>>, HiddenPriority, <<2>>, prov)
    \/ ofproto_delete_flow(<<Wild, Wild>>, HiddenPriority)
    \/ ofproto_flush_flows
    \/ \E f \in Flows : ofproto_rule_lookup(f)

SpecFlow == InitFlow /\ [][NextFlow]_vars

----------------------------------------------------------------------------------------------------------------------------------------
(* SpecLife: the life of rules over few matches: every flow operation,     *)
(* with timeouts and the clock.                                            *)

TimedProfile == [cookie |-> 11, actions |-> <<3>>, idle_timeout |-> 0, hard_timeout |-> 1]
LifeProfiles == {PlainProfile, TimedProfile}
LifeMatches == {<<Wild, Wild>>, <<0, Wild>>}
LifeFlags(prof) == IF prof.hard_timeout > 0 THEN {"SEND_FLOW_REM"} ELSE {}

LifeMods ==
    {FlowMod(cmd, m, 100, prof, LifeFlags(prof), "NONE", OFPP_NONE) :
        cmd \in {"OFPFC_ADD", "OFPFC_MODIFY", "OFPFC_MODIFY_STRICT"},
        m \in LifeMatches, prof \in LifeProfiles}
    \cup
    {FlowMod("OFPFC_DELETE", m, 100, PlainProfile, {}, "NONE", outp) :
        m \in LifeMatches, outp \in {OFPP_NONE, 3}}
    \cup
    {FlowMod("OFPFC_DELETE_STRICT", m, 100, PlainProfile, {}, "NONE", OFPP_NONE) :
        m \in LifeMatches}

NextLife ==
    \/ \E fm \in LifeMods : \E env \in FlowEnvs(fm) : Receive(1, FlowModMsg(fm), env)
    \/ \E prov \in {"ok", "alloc_fail"} :
          ofproto_add_flow(<<Wild, Wild>>, 100, <<2>>, prov)
    \/ ofproto_delete_flow(<<Wild, Wild>>, 100)
    \/ ofproto_flush_flows
    \/ \E r \in cls, reason \in {"OFPRR_HARD_TIMEOUT", "OFPRR_IDLE_TIMEOUT"} :
          ofproto_rule_expire(r, reason)
    \/ Tick

SpecLife == InitFlow /\ [][NextLife]_vars

----------------------------------------------------------------------------
(* SpecAdd: ADD upon ADD, with buffered packets, packet counters and the   *)
(* clock.                                                                  *)

AddMods ==
    {FlowMod("OFPFC_ADD", m, 100, prof, LifeFlags(prof), buf, OFPP_NONE) :
        m \in LifeMatches, prof \in LifeProfiles, buf \in {"NONE", "VALID", "STALE"}}

NextAdd ==
    \/ \E fm \in AddMods : \E env \in FlowEnvs(fm) : Receive(1, FlowModMsg(fm), env)
    \/ \E r \in cls : rule_credit(r)
    \/ Tick

SpecAdd == InitFlow /\ [][NextAdd]_vars

----------------------------------------------------------------------------
(* SpecRemove: rules that leave the table: DELETE and DELETE_STRICT with    *)
(* and without an out_port, idle and hard timeouts, with SEND_FLOW_REM set  *)
(* and clear, packets credited, and a hidden rule beside them.              *)

IdleProfile == [cookie |-> 12, actions |-> <<3>>, idle_timeout |-> 1, hard_timeout |-> 0]

\* the rule for everything has an idle timeout, the narrower one a hard timeout
RemoveProfile(m) == IF m = <<Wild, Wild>> THEN IdleProfile ELSE TimedProfile

RemoveMods ==
    {FlowMod("OFPFC_ADD", m, 100, RemoveProfile(m), flags, "NONE", OFPP_NONE) :
        m \in LifeMatches, flags \in {{}, {"SEND_FLOW_REM"}}}
    \cup
    {FlowMod(cmd, m, 100, PlainProfile, {}, "NONE", outp) :
        cmd \in {"OFPFC_DELETE", "OFPFC_DELETE_STRICT"},
        m \in LifeMatches, outp \in {OFPP_NONE, 2}}

NextRemove ==
    \/ \E fm \in RemoveMods : \E env \in FlowEnvs(fm) : Receive(1, FlowModMsg(fm), env)
    \/ ofproto_add_flow(<<Wild, Wild>>, HiddenPriority, <<2>>, "ok")
    \/ \E r \in cls, reason \in {"OFPRR_HARD_TIMEOUT", "OFPRR_IDLE_TIMEOUT"} :
          ofproto_rule_expire(r, reason)
    \/ \E r \in {x \in cls : ~rule_is_hidden(x)} : rule_credit(r)
    \/ Tick

SpecRemove == InitFlow /\ [][NextRemove]_vars

----------------------------------------------------------------------------
(* SpecExpire: the provider's run() expires every rule that has reached a   *)
(* timeout, between flow_mods and ticks of the clock.  The main loop calls  *)
(* run() again and again, and time passes.                                  *)

\* has rule r reached the timeout that reason names, at time t
rule_timed_out(r, reason, t) ==
    LET timeout == IF reason = "OFPRR_HARD_TIMEOUT"
                   THEN r.hard_timeout ELSE r.idle_timeout
    IN timeout > 0 /\ t >= r.created + timeout * 1000

\* a rule that is told of its expiry and stays in the table
rule_expire_keep(acc, rule, reason, t) ==
    [cls |-> acc.cls,
     out |-> acc.out \o ofproto_rule_send_removed(rule, reason, t),
     calls |-> acc.calls \o ofproto_rule_send_removed_calls(rule),
     expired |-> acc.expired \o <<[rule |-> rule, reason |-> reason]>>]

\* ofproto_rule_expire as run() calls it: acc is [cls, out, calls, expired]
rule_expire(acc, rule, reason, t) ==
    [cls |-> ofproto_rule_remove(acc.cls, rule),
     out |-> acc.out \o ofproto_rule_send_removed(rule, reason, t),
     calls |-> acc.calls \o ofproto_rule_send_removed_calls(rule)
               \o ofproto_rule_remove_calls(rule),
     expired |-> acc.expired \o <<[rule |-> rule, reason |-> reason]>>]

RECURSIVE expire_loop(_, _, _, _, _)
expire_loop(order, why, i, acc, t) ==
    IF i > Len(order)
    THEN acc
    ELSE expire_loop(order, why, i + 1, rule_expire(acc, order[i], why[order[i]], t), t)

\* ->run(): ofproto_rule_expire for each rule that has reached a timeout, in
\* the order the provider comes upon them, each for a timeout it has reached
ofproto_class_run(order, why) ==
    /\ initialized
    /\ \A i \in 1..Len(order) : rule_timed_out(order[i], why[order[i]], now)
    /\ LET res == expire_loop(order, why, 1,
                              [cls |-> cls, out |-> <<>>, calls |-> <<>>,
                               expired |-> <<>>], now)
       IN /\ cls' = res.cls
          /\ sent' = Broadcast(res.out)
          /\ last' = [op |-> "run", expired |-> res.expired, calls |-> res.calls]
    /\ UNCHANGED <<now, connVars, inbox, arrivals, portVars, switchVars, runVars>>

TimedOut ==
    {r \in cls : \E reason \in {"OFPRR_HARD_TIMEOUT", "OFPRR_IDLE_TIMEOUT"} :
                    rule_timed_out(r, reason, now)}

run ==
    \E order \in Orders(TimedOut) :
       \E why \in [TimedOut -> {"OFPRR_HARD_TIMEOUT", "OFPRR_IDLE_TIMEOUT"}] :
          ofproto_class_run(order, why)

ExpireMods ==
    {FlowMod("OFPFC_ADD", m, 100, prof, LifeFlags(prof), "NONE", OFPP_NONE) :
        m \in LifeMatches, prof \in LifeProfiles}
    \cup
    {FlowMod("OFPFC_DELETE", <<Wild, Wild>>, 100, PlainProfile, {}, "NONE", OFPP_NONE)}

NextExpire ==
    \/ \E fm \in ExpireMods : \E env \in FlowEnvs(fm) : Receive(1, FlowModMsg(fm), env)
    \/ run
    \/ Tick

SpecExpire == InitFlow /\ [][NextExpire]_vars /\ WF_vars(run) /\ WF_vars(Tick)

----------------------------------------------------------------------------
(* SpecHidden: hidden rules, which ofproto itself sets up above every       *)
(* priority a controller can name, under every flow_mod command over the    *)
(* matches that cover them, with and without an out_port.                   *)

OtherProfile == [cookie |-> 13, actions |-> <<3>>, idle_timeout |-> 0, hard_timeout |-> 0]
HiddenPriorities == {100, UINT16_MAX}

HiddenMods ==
    {FlowMod("OFPFC_ADD", m, p, PlainProfile, {}, "NONE", OFPP_NONE) :
        m \in LifeMatches, p \in HiddenPriorities}
    \cup
    {FlowMod(cmd, m, p, OtherProfile, {}, "NONE", OFPP_NONE) :
        cmd \in {"OFPFC_MODIFY", "OFPFC_MODIFY_STRICT"},
        m \in LifeMatches, p \in HiddenPriorities}
    \cup
    {FlowMod("OFPFC_DELETE", m, 100, PlainProfile, {}, "NONE", outp) :
        m \in LifeMatches, outp \in {OFPP_NONE, 2}}
    \cup
    {FlowMod("OFPFC_DELETE_STRICT", m, p, PlainProfile, {}, "NONE", OFPP_NONE) :
        m \in LifeMatches, p \in HiddenPriorities}

NextHidden ==
    \/ \E fm \in HiddenMods : \E env \in FlowEnvs(fm) : Receive(1, FlowModMsg(fm), env)
    \/ \E m \in LifeMatches : ofproto_add_flow(m, HiddenPriority, <<2>>, "ok")
    \/ \E m \in LifeMatches : ofproto_delete_flow(m, HiddenPriority)
    \/ ofproto_flush_flows

SpecHidden == InitFlow /\ [][NextHidden]_vars

----------------------------------------------------------------------------
(* SpecStats: what is reported of the flow table: flow and aggregate       *)
(* statistics in both forms, flow-removed messages and the dump of all     *)
(* flows, over visible and hidden rules with packets credited to them.     *)

\* flow_stats_ds: the line of the dump for rule
flow_stats_ds(rule, t) ==
    [duration |-> (t - rule.created) \div 1000, priority |-> rule.priority,
     n_packets |-> rule.packet_count, n_bytes |-> rule.byte_count,
     match |-> rule.match, actions |-> rule.actions]

\* ofproto_get_all_flows: a line for every rule the cursor visits
ofproto_get_all_flows(order) ==
    /\ initialized
    /\ last' = [op |-> "ofproto_get_all_flows",
                results |-> [i \in 1..Len(order) |-> flow_stats_ds(order[i], now)]]
    /\ sent' = Broadcast(<<>>)
    /\ UNCHANGED <<cls, now, connVars, inbox, arrivals, portVars, switchVars, runVars>>

\* the rule for everything outputs to port 3, the narrower one to port 2
StatsProfile(m) == IF m = <<Wild, Wild>> THEN TimedProfile ELSE PlainProfile

StatsMods ==
    {FlowMod("OFPFC_ADD", m, 100, StatsProfile(m), {"SEND_FLOW_REM"}, "NONE", OFPP_NONE) :
        m \in LifeMatches}
    \cup
    {FlowMod("OFPFC_DELETE", <<Wild, Wild>>, 100, PlainProfile, {}, "NONE", OFPP_NONE)}

StatsRequests ==
    {[type |-> type, xid |-> 1,
      body |-> [match |-> m, out_port |-> outp, table_id |-> tid, decode_err |-> OK]] :
        type \in {"OFPST_FLOW_REQUEST", "OFPST_AGGREGATE_REQUEST",
                  "NXST_FLOW_REQUEST", "NXST_AGGREGATE_REQUEST"},
        m \in LifeMatches, outp \in {OFPP_NONE, 2}, tid \in {0}}
    \cup
    {[type |-> type, xid |-> 1,
      body |-> [match |-> <<Wild, Wild>>, out_port |-> OFPP_NONE, table_id |-> tid,
                decode_err |-> OK]] :
        type \in {"OFPST_FLOW_REQUEST", "OFPST_AGGREGATE_REQUEST",
                  "NXST_FLOW_REQUEST", "NXST_AGGREGATE_REQUEST"},
        tid \in {1, 255}}
    \cup
    {[type |-> type, xid |-> 1,
      body |-> [match |-> <<Wild, Wild>>, out_port |-> OFPP_NONE, table_id |-> 0,
                decode_err |-> "OFPBRC_BAD_LEN"]] :
        type \in {"NXST_FLOW_REQUEST", "NXST_AGGREGATE_REQUEST"}}

\* the order in which the cursor of a statistics request visits the rules
StatsEnvs == {[prov |-> "ok", modfail |-> {}, order |-> o] : o \in Orders(cls)}

NextStats ==
    \/ \E fm \in StatsMods : \E env \in FlowEnvs(fm) : Receive(1, FlowModMsg(fm), env)
    \/ \E req \in StatsRequests : \E env \in StatsEnvs : Receive(1, req, env)
    \/ \E m \in LifeMatches : ofproto_add_flow(m, HiddenPriority, <<2>>, "ok")
    \/ \E m \in LifeMatches : ofproto_delete_flow(m, HiddenPriority)
    \/ ofproto_flush_flows
    \/ \E order \in Orders(cls) : ofproto_get_all_flows(order)
    \/ \E r \in cls : rule_credit(r)

SpecStats == InitFlow /\ [][NextStats]_vars

----------------------------------------------------------------------------
(* SpecReply: statistics requests over rules whose action lists are as     *)
(* long as a flow_mod message can carry, so that the replies fill up.      *)

\* the most actions one flow_mod message, of at most UINT16_MAX bytes, carries
MaxActions == (UINT16_MAX - sizeof_ofp_flow_mod) \div sizeof_ofp_action

\* n actions that output to port 2
OutputActions(n) == [i \in 1..n |-> 2]

ActionCounts == {1, 5000, MaxActions}

ReplyProfile(n) ==
    [cookie |-> 14, actions |-> OutputActions(n), idle_timeout |-> 0, hard_timeout |-> 0]

ReplyMods ==
    {FlowMod("OFPFC_ADD", m, 100, ReplyProfile(n), {}, "NONE", OFPP_NONE) :
        m \in LifeMatches, n \in ActionCounts}
    \cup
    {FlowMod("OFPFC_DELETE", <<Wild, Wild>>, 100, PlainProfile, {}, "NONE", OFPP_NONE)}

ReplyRequests ==
    {[type |-> type, xid |-> x,
      body |-> [match |-> <<Wild, Wild>>, out_port |-> OFPP_NONE, table_id |-> 0,
                decode_err |-> OK]] :
        type \in {"OFPST_FLOW_REQUEST", "OFPST_AGGREGATE_REQUEST",
                  "NXST_FLOW_REQUEST", "NXST_AGGREGATE_REQUEST"},
        x \in {1, 2}}

NextReply ==
    \/ \E fm \in ReplyMods : \E env \in FlowEnvs(fm) : Receive(1, FlowModMsg(fm), env)
    \/ \E req \in ReplyRequests : \E env \in StatsEnvs : Receive(1, req, env)

SpecReply == InitFlow /\ [][NextReply]_vars

----------------------------------------------------------------------------
(* SpecDisp: the dispatcher with two connections, a primary one (1) whose   *)
(* role changes and a service one (2), a switch with one port, and one      *)
(* request of every kind in each of its outcomes.                           *)

Xids == {1, 2}

Msg(type, xid, body) == [type |-> type, xid |-> xid, body |-> body]

DispFlowMods ==
    LET add == FlowMod("OFPFC_ADD", <<0, Wild>>, 100, PlainProfile, {}, "NONE", OFPP_NONE)
    IN {add,
        FlowMod("OFPFC_DELETE", <<Wild, Wild>>, 100, PlainProfile, {}, "NONE", OFPP_NONE),
        [add EXCEPT !.decode_err = "OFPBRC_BAD_LEN"],
        [add EXCEPT !.flags = {"EMERG"}],
        [add EXCEPT !.command = "OFPFC_BOGUS"]}

DispPortMods ==
    {[port_no |-> 1, hw_addr |-> 1, config |-> {"OFPPC_NO_FLOOD"},
      mask |-> {"OFPPC_NO_FLOOD"}, advertise |-> 0],
     [port_no |-> 2, hw_addr |-> 1, config |-> {"OFPPC_NO_FLOOD"},
      mask |-> {"OFPPC_NO_FLOOD"}, advertise |-> 0]}

DispPacketOuts ==
    {[buffer_id |-> "NONE", actions_err |-> OK, po_err |-> OK],
     [buffer_id |-> "NONE", actions_err |-> OK, po_err |-> "OFPBAC_BAD_OUT_PORT"]}

DispSetConfigs ==
    {[flags |-> "OFPC_FRAG_DROP", miss_send_len |-> 64],
     [flags |-> "OFPC_FRAG_NORMAL", miss_send_len |-> 128]}

DispRoleRequests ==
    {[role |-> "NX_ROLE_SLAVE"], [role |-> "NX_ROLE_MASTER"], [role |-> "NX_ROLE_BOGUS"]}

DispMsgs(x) ==
    {Msg("FLOW_MOD", x, b) : b \in DispFlowMods}
    \cup {Msg("PORT_MOD", x, b) : b \in DispPortMods}
    \cup {Msg("PACKET_OUT", x, b) : b \in DispPacketOuts}
    \cup {Msg("SET_CONFIG", x, b) : b \in DispSetConfigs}
    \cup {Msg("ROLE_REQUEST", x, b) : b \in DispRoleRequests}
    \cup {Msg(t, x, <<>>) : t \in {"BARRIER_REQUEST", "ECHO_REQUEST", "PORT_STATUS",
                                     "UNDECODABLE"}}

MsgEnvs(msg) == IF msg.type = "FLOW_MOD" THEN FlowEnvs(msg.body) ELSE {NoEnv}

\* the switch as init_ports leaves it over a datapath with the one port eth0
InitOnePort ==
    /\ all_ofprotos = {Br0}
    /\ ofprotos = {Br0}
    /\ InitRun
    /\ devs = [n \in Names |-> CHOOSE d \in DevStates : d.hw_addr = 1 /\ d.up]
    /\ dp = {[name |-> "eth0", ofp_port |-> 1]}
    /\ ports = {[id |-> 1, name |-> "eth0", netdev |-> 1, ofp_port |-> 1,
                 opp |-> PhyPort([name |-> "eth0", ofp_port |-> 1],
                                 CHOOSE d \in DevStates : d.hw_addr = 1 /\ d.up)]}
    /\ port_by_name = {<<"eth0", 1>>}
    /\ netdevs = {1}
    /\ initialized = TRUE

InitDisp ==
    /\ cls = {}
    /\ now = 0
    /\ InitConn
    /\ InitOnePort

NextDisp ==
    \E c \in Conns, x \in Xids : \E msg \in DispMsgs(x) : \E env \in MsgEnvs(msg) :
        Receive(c, msg, env)

SpecDisp == InitDisp /\ [][NextDisp]_vars

----------------------------------------------------------------------------
(* SpecPort: the port table from ofproto_create on, over a datapath whose   *)
(* ports come, go and move, and whose dump may at first name a device or a  *)
(* port number twice.                                                       *)

DpRecords == {[name |-> n, ofp_port |-> q] : n \in Names, q \in PortNos}

\* the port table as a step finds it
PortTable ==
    [ports |-> ports, by_name |-> port_by_name, netdevs |-> netdevs,
     out |-> <<>>, calls |-> <<>>, emitted |-> <<>>, unlinks |-> <<>>]

\* the port table as a step leaves it; port status goes to every connection
SetPortTable(pt, op, arg) ==
    /\ ports' = pt.ports
    /\ port_by_name' = pt.by_name
    /\ netdevs' = pt.netdevs
    /\ sent' = Broadcast(pt.out)
    /\ last' = [op |-> op, arg |-> arg, calls |-> pt.calls, emitted |-> pt.emitted]

\* ofproto_normalize_type: the empty type is the default type
ofproto_normalize_type(type) == IF type = "" THEN "system" ELSE type

\* the datapath types the registered classes enumerate
ofproto_classes == {"system", "netdev"}

\* ofproto_class_find__: the class that enumerates the type, if there is one
ofproto_class_find__(type) == IF type \in ofproto_classes THEN {type} ELSE {}

\* the most struct ofproto objects alive at once
MaxSwitches == 2

\* the object the provider's alloc() returns: the lowest address that is free
ofproto_alloc ==
    CHOOSE id \in 1..MaxSwitches : /\ \A o \in ofprotos : o.id # id
                                   /\ \A k \in 1..(id - 1) : \E o \in ofprotos : o.id = k

\* the process has not been stopped by a crash
Running == ~("abort" \in DOMAIN last /\ last.abort)

\* ofproto_create stops before alloc(), or alloc() returns NULL
ofproto_create_refused(err, calls) ==
    /\ sent' = Broadcast(<<>>)
    /\ last' = [op |-> "ofproto_create", err |-> err, calls |-> calls, emitted |-> <<>>]
    /\ UNCHANGED <<flowVars, connVars, inbox, arrivals, portVars, switchVars, runVars>>

\* ofproto_destroy__: out of all_ofprotos, then the provider's dealloc()
ofproto_destroy__(registry, ofproto) == registry \ {ofproto}

\* ofproto_create after construct() has failed on the registered object
ofproto_create_failed(registry, ofproto, err) ==
    /\ all_ofprotos' = ofproto_destroy__(registry, ofproto)
    /\ ofprotos' = ofprotos
    /\ UNCHANGED runVars
    /\ sent' = Broadcast(<<>>)
    /\ last' = [op |-> "ofproto_create", err |-> err,
                calls |-> <<<<"alloc", ofproto.id, OK>>,
                            <<"construct", ofproto.id, err>>,
                            <<"dealloc", ofproto.id>>>>,
                emitted |-> <<>>]
    /\ UNCHANGED <<flowVars, connVars, inbox, arrivals, portVars>>

\* ofproto_create: find the class, alloc, register under the name, construct
\* (ofproto_destroy__ undoes the registration when construct fails), then
\* init_ports over the datapath's dump, in the dump's order.  Only the
\* model's own switch has a datapath with ports.
ofproto_create(datapath_name, datapath_type, prov, order, env) ==
    /\ Running
    /\ Cardinality(ofprotos) < MaxSwitches
    /\ LET type == ofproto_normalize_type(datapath_type)
           ofproto == [id |-> ofproto_alloc, name |-> datapath_name, type |-> type]
       IN IF ofproto_class_find__(type) = {}
          THEN ofproto_create_refused("EAFNOSUPPORT", <<>>)
          ELSE IF prov = "alloc_fail"
          THEN ofproto_create_refused("ENOMEM", <<<<"alloc", 0, "NULL">>>>)
          ELSE IF prov = "construct_fail"
          THEN ofproto_create_failed(all_ofprotos \cup {ofproto}, ofproto, "ENODEV")
          ELSE /\ all_ofprotos' = all_ofprotos \cup {ofproto}
               /\ ofprotos' = ofprotos \cup {ofproto}
               /\ UNCHANGED runVars
               /\ IF ofproto.id = 1
                  THEN /\ SetPortTable(
                              init_loop([PortTable EXCEPT
                                            !.calls = <<<<"alloc", 1, OK>>,
                                                        <<"construct", 1, OK>>>>],
                                        order, 1, devs, env),
                              "init_ports", order)
                       /\ initialized' = TRUE
                       /\ UNCHANGED <<flowVars, connVars, inbox, arrivals, dp, devs>>
                  ELSE /\ sent' = Broadcast(<<>>)
                       /\ last' = [op |-> "ofproto_create", err |-> OK,
                                   calls |-> <<<<"alloc", ofproto.id, OK>>,
                                               <<"construct", ofproto.id, OK>>>>,
                                   emitted |-> <<>>]
                       /\ UNCHANGED <<flowVars, connVars, inbox, arrivals, portVars>>

\* the loop of ofproto_flush_flows__: ofproto_rule_remove on every rule, in
\* the cursor's order
RECURSIVE flush_loop(_, _)
flush_loop(order, i) ==
    IF i > Len(order)
    THEN <<>>
    ELSE ofproto_rule_remove_calls(order[i]) \o flush_loop(order, i + 1)

\* ofproto_flush_flows__: the provider's flush(), then the loop
ofproto_flush_flows__(id, order) == <<<<"flush", id>>>> \o flush_loop(order, 1)

\* the loop of ofproto_destroy over the ports: hmap_remove, then ofport_destroy
RECURSIVE ofproto_destroy_ports(_, _, _)
ofproto_destroy_ports(pt, order, i) ==
    IF i > Len(order)
    THEN pt
    ELSE ofproto_destroy_ports(
             ofport_destroy([pt EXCEPT !.ports = @ \ {order[i]},
                                       !.unlinks = @ \o <<<<"ports", order[i].id,
                                                            order[i] \in pt.ports>>>>],
                            order[i]),
             order, i + 1)

\* what a second hmap_remove of a node that is no longer in the map does is
\* not defined: the walk along the bucket may fault, or may go unnoticed
HmapRemoveTwice == {"fault", "unnoticed"}

\* ofproto_destroy stopped by a fault in ofport_destroy__'s hmap_remove of the
\* first port, which the loop had already taken out of the map
ofproto_destroy_fault(p, rules, order) ==
    /\ cls' = {}
    /\ ports' = ports \ {order[1]}
    /\ initialized' = FALSE
    /\ sent' = Broadcast(<<>>)
    /\ last' = [op |-> "ofproto_destroy", arg |-> p,
                calls |-> ofproto_flush_flows__(p.id, rules)
                          \o <<<<"port_destruct", order[1].id>>>>,
                unlinks |-> <<<<"ports", order[1].id, TRUE>>,
                              <<"ports", order[1].id, FALSE>>>>,
                emitted |-> <<>>, abort |-> TRUE]
    /\ UNCHANGED <<now, connVars, inbox, arrivals, port_by_name, dp, devs, netdevs,
                   switchVars, runVars>>

\* ofproto_destroy that returns
ofproto_destroy_done(p, pt) ==
    /\ ports' = pt.ports
    /\ port_by_name' = pt.by_name
    /\ netdevs' = pt.netdevs
    /\ all_ofprotos' = ofproto_destroy__(all_ofprotos, p)
    /\ ofprotos' = ofprotos \ {p}
    /\ UNCHANGED runVars
    /\ sent' = Broadcast(pt.out)
    /\ last' = [op |-> "ofproto_destroy", arg |-> p,
                calls |-> pt.calls \o <<<<"destruct", p.id>>, <<"hmap_remove", p.id>>,
                                        <<"dealloc", p.id>>>>,
                unlinks |-> pt.unlinks,
                emitted |-> pt.emitted, abort |-> FALSE]

\* the null pointer to a struct ofproto
NoSwitch == [id |-> 0, name |-> "", type |-> ""]

\* ofproto_destroy(NULL)
ofproto_destroy_NULL ==
    /\ Running
    /\ sent' = Broadcast(<<>>)
    /\ last' = [op |-> "ofproto_destroy", arg |-> NoSwitch, calls |-> <<>>,
                emitted |-> <<>>, abort |-> FALSE]
    /\ UNCHANGED <<flowVars, connVars, inbox, arrivals, portVars, switchVars, runVars>>

\* ofproto_destroy: ofproto_flush_flows__, every port out of the map and
\* destroyed, the provider's destruct(), then ofproto_destroy__
ofproto_destroy(p, rules, order, twice) ==
    /\ Running
    /\ p \in ofprotos
    /\ IF p.id # 1
       THEN /\ ofproto_destroy_done(
                   p, [PortTable EXCEPT !.calls = ofproto_flush_flows__(p.id, <<>>)])
            /\ UNCHANGED <<flowVars, connVars, inbox, arrivals, dp, devs, initialized>>
       ELSE IF order # <<>> /\ twice = "fault"
       THEN ofproto_destroy_fault(p, rules, order)
       ELSE /\ ofproto_destroy_done(
                   p, ofproto_destroy_ports(
                          [PortTable EXCEPT
                              !.calls = ofproto_flush_flows__(p.id, rules)],
                          order, 1))
            /\ cls' = {}
            /\ initialized' = FALSE
            /\ UNCHANGED <<now, connVars, inbox, arrivals, dp, devs>>

\* ofproto_run: port_poll names a device that changed
port_poll(name, env) ==
    /\ initialized
    /\ SetPortTable(update_port_env(PortTable, name, dp, devs, env),
                    "update_port", name)
    /\ UNCHANGED <<flowVars, connVars, inbox, arrivals, dp, devs, initialized, switchVars, runVars>>

\* ofproto_run: port_poll answers ENOBUFS and every known name is rescanned
port_poll_ENOBUFS(order, env) ==
    /\ initialized
    /\ SetPortTable(reinit_loop(PortTable, order, 1, dp, devs, env),
                    "reinit_ports", order)
    /\ UNCHANGED <<flowVars, connVars, inbox, arrivals, dp, devs, initialized, switchVars, runVars>>

\* ofproto_port_add: the provider's port_add gives the device a free number,
\* or fails; update_port follows a success
ofproto_port_add(name, q, env) ==
    /\ initialized
    /\ IF \E r \in dp : r.name = name \/ r.ofp_port = q
       THEN /\ dp' = dp
            /\ SetPortTable(PortTable, "ofproto_port_add", <<name, "EEXIST">>)
       ELSE /\ dp' = dp \cup {[name |-> name, ofp_port |-> q]}
            /\ SetPortTable(update_port_env(PortTable, name, dp', devs, env),
                            "ofproto_port_add", <<name, q>>)
    /\ UNCHANGED <<flowVars, connVars, inbox, arrivals, devs, initialized, switchVars, runVars>>

\* ofproto_port_del: the provider's port_del takes the number out of the
\* datapath, or fails; update_port follows a success on a port known here
ofproto_port_del(q, env) ==
    /\ initialized
    /\ LET ofport == ofproto_get_port(PortTable, q)
           gone == {r \in dp : r.ofp_port = q}
       IN IF gone = {}
          THEN /\ dp' = dp
               /\ SetPortTable(PortTable, "ofproto_port_del", <<q, "ENOENT">>)
          ELSE /\ dp' = dp \ gone
               /\ SetPortTable(IF ofport # {}
                               THEN update_port_env(PortTable,
                                        (CHOOSE p \in ofport : TRUE).name,
                                        dp', devs, env)
                               ELSE PortTable,
                               "ofproto_port_del", <<q, "OK">>)
    /\ UNCHANGED <<flowVars, connVars, inbox, arrivals, devs, initialized, switchVars, runVars>>

\* something else adds a port to the datapath, deletes one, or moves a
\* device to another number
DatapathChanges(rec) ==
    /\ initialized
    /\ IF rec \in dp
       THEN dp' = dp \ {rec}
       ELSE dp' = {r \in dp : r.name # rec.name /\ r.ofp_port # rec.ofp_port}
                  \cup {rec}
    /\ sent' = Broadcast(<<>>)
    /\ last' = [op |-> "datapath", arg |-> rec, calls |-> <<>>]
    /\ UNCHANGED <<flowVars, connVars, inbox, arrivals, ports, port_by_name,
                   netdevs, devs, initialized, switchVars, runVars>>

\* a device changes its address, flags, carrier or features
DeviceChanges(name, d) ==
    /\ initialized
    /\ devs[name] # d
    /\ devs' = [devs EXCEPT ![name] = d]
    /\ sent' = Broadcast(<<>>)
    /\ last' = [op |-> "device", arg |-> name, calls |-> <<>>]
    /\ UNCHANGED <<flowVars, connVars, inbox, arrivals, ports, port_by_name,
                   netdevs, dp, initialized, switchVars, runVars>>

InitPort ==
    /\ cls = {}
    /\ now = 0
    /\ InitConn
    /\ ports = {}
    /\ port_by_name = {}
    /\ netdevs = {}
    /\ devs = [n \in Names |-> CHOOSE d \in DevStates : d.hw_addr = 1 /\ d.up]
    /\ dp \in SUBSET DpRecords
    /\ initialized = FALSE
    /\ all_ofprotos = {}
    /\ ofprotos = {}
    /\ InitRun

NextPort ==
    \/ /\ ofprotos = {}
       /\ \E order \in Orders(dp) :
             \E env \in PortEnvs({r.name : r \in dp}) :
                ofproto_create("br0", "", "ok", order, env)
    \/ \E name \in Names : \E env \in PortEnvs({name}) : port_poll(name, env)
    \/ \E order \in Orders(reinit_names(PortTable, dp)) :
          \E env \in PortEnvs(reinit_names(PortTable, dp)) :
             port_poll_ENOBUFS(order, env)
    \/ \E name \in Names, q \in PortNos : \E env \in PortEnvs({name}) :
          ofproto_port_add(name, q, env)
    \/ \E q \in PortNos :
          \E env \in PortEnvs({p.name : p \in ofproto_get_port(PortTable, q)}) :
             ofproto_port_del(q, env)
    \/ \E rec \in DpRecords : DatapathChanges(rec)
    \/ \E d \in {x \in DevStates : x.hw_addr = 1} : DeviceChanges("eth0", d)

SpecPort == InitPort /\ [][NextPort]_vars

----------------------------------------------------------------------------
(* SpecOrder: messages queue up on their connection before connmgr_run      *)
(* hands them to handle_openflow.  A connection numbers its messages: the   *)
(* xid of a message is its place in the order of arrival.                   *)

OrderBodies ==
    {<<"BARRIER_REQUEST", <<>> >>, <<"PORT_STATUS", <<>> >>,
     <<"FLOW_MOD", FlowMod("OFPFC_ADD", <<0, Wild>>, 100, PlainProfile, {}, "NONE",
                           OFPP_NONE)>>}

\* a message arrives on connection c and waits its turn
Arrive(c, tb) ==
    /\ initialized
    /\ arrivals[c] < MaxArrivals
    /\ Len(inbox[c]) < MaxInbox
    /\ arrivals' = [arrivals EXCEPT ![c] = @ + 1]
    /\ inbox' = [inbox EXCEPT ![c] = Append(@, Msg(tb[1], arrivals[c] + 1, tb[2]))]
    /\ sent' = Broadcast(<<>>)
    /\ last' = [op |-> "arrive", conn |-> c]
    /\ UNCHANGED <<flowVars, connVars, portVars, switchVars, runVars>>

\* connmgr_run: the oldest waiting message of connection c is handled
connmgr_run(c, env) ==
    /\ inbox[c] # <<>>
    /\ Dispatch(c, Head(inbox[c]), env)
    /\ inbox' = [inbox EXCEPT ![c] = Tail(@)]
    /\ UNCHANGED arrivals

NextOrder ==
    \/ \E c \in Conns, tb \in OrderBodies : Arrive(c, tb)
    \/ \E c \in {k \in Conns : inbox[k] # <<>>} :
          \E env \in MsgEnvs(Head(inbox[c])) : connmgr_run(c, env)

SpecOrder == InitDisp /\ [][NextOrder]_vars

----------------------------------------------------------------------------
(* Properties of the flow table. *)

\* the step just taken (or, primed, being taken) handled a flow_mod with this command
IsFlowMod(l, cmd) ==
    /\ l.op = "handle_openflow"
    /\ l.msg.type = "FLOW_MOD"
    /\ l.msg.body.command = cmd

\* the rule a request asks for, before any packet is credited to it
RequestedRule(fm, t) ==
    [match |-> fm.match, priority |-> fm.priority, flow_cookie |-> fm.cookie,
     actions |-> fm.actions, idle_timeout |-> fm.idle_timeout,
     hard_timeout |-> fm.hard_timeout,
     send_flow_removed |-> ("SEND_FLOW_REM" \in fm.flags),
     created |-> t, packet_count |-> 0, byte_count |-> 0]

\* C1: in every reachable state the flow table holds at most one rule for
\* any (match, priority) pair, whatever flow operations led there.
C1_OneRulePerMatchPriority ==
    \A r1, r2 \in cls :
        (r1.match = r2.match /\ r1.priority = r2.priority) => r1 = r2

\* an ADD has just replaced the rule with its own pair, next to another rule
C1_Witness ==
    /\ IsFlowMod(last, "OFPFC_ADD")
    /\ last.err = OK
    /\ last.n_flows = Cardinality(cls)
    /\ Cardinality(cls) >= 2
    /\ classifier_find_rule_exactly(cls, last.msg.body.match,
                                    last.msg.body.priority) # {}

\* C2: a lookup returns a rule of the table that matches the flow and that no
\* matching rule outranks; it returns none exactly when no rule matches.
C2_LookupHighestPriority ==
    last.op = "ofproto_rule_lookup" =>
        /\ (last.found = {}) <=> ~\E r \in cls : flow_matches(r.match, last.flow)
        /\ \A r \in last.found :
              /\ r \in cls
              /\ flow_matches(r.match, last.flow)
              /\ \A q \in cls : flow_matches(q.match, last.flow)
                                   => q.priority <= r.priority
        /\ \A r \in cls : flow_matches(r.match, last.flow) =>
              \E w \in last.found : /\ w.priority >= r.priority
                                     /\ flow_matches(w.match, last.flow)

\* a lookup that passed over a matching rule of lower priority
C2_Witness ==
    /\ last.op = "ofproto_rule_lookup"
    /\ \E w \in last.found : \E r \in cls :
          flow_matches(r.match, last.flow) /\ r.priority < w.priority

C4_CheckOverlap ==
    [][(IsFlowMod(last', "OFPFC_ADD")
        /\ classifier_rule_overlaps(cls, last'.msg.body.match, last'.msg.body.priority))
       => LET fm == last'.msg.body
          IN IF "CHECK_OVERLAP" \in fm.flags
             THEN /\ last'.err = "OFPFMFC_OVERLAP"
                  /\ cls' = cls
                  /\ \E i \in 1..Len(sent'[last'.conn]) :
                        /\ sent'[last'.conn][i].type = "ERROR"
                        /\ sent'[last'.conn][i].error = "OFPFMFC_OVERLAP"
             ELSE /\ last'.err # "OFPFMFC_OVERLAP"
                  /\ last'.err = OK =>
                        /\ classifier_find_rule_exactly(cls', fm.match, fm.priority) # {}
                        /\ \A r \in cls : r.match # fm.match => r \in cls']_vars

\* an ADD refused for overlap by a rule whose match neither covers nor is
\* covered by the request's
C4_Witness ==
    /\ IsFlowMod(last, "OFPFC_ADD")
    /\ last.err = "OFPFMFC_OVERLAP"
    /\ "CHECK_OVERLAP" \in last.msg.body.flags
    /\ \E r \in cls : /\ r.priority = last.msg.body.priority
                       /\ match_overlap(r.match, last.msg.body.match)
                       /\ ~match_subsumed(r.match, last.msg.body.match)
                       /\ ~match_subsumed(last.msg.body.match, r.match)

----------------------------------------------------------------------------
(* Properties of the dispatcher. *)

\* the step being taken hands a message of one of these types to handle_openflow
Handles(l, types) == l.op = "handle_openflow" /\ l.msg.type \in types

\* the OFPT_ERROR messages among those put on connection k
ErrorsSent(s, k) == SelectSeq(s[k], LAMBDA m : m.type = "ERROR")

\* nothing a controller can set has changed
SwitchStateUnchanged == UNCHANGED <<cls, role, miss_send_len, drop_frags, ports, devs>>

\* the request was refused with BAD_REQUEST/EPERM, answered only to its sender,
\* and nothing was done about it
RefusedForRole(l) ==
    /\ l.err = "OFPBRC_EPERM"
    /\ sent'[l.conn] = <<[type |-> "ERROR", xid |-> l.msg.xid,
                           error |-> "OFPBRC_EPERM", request |-> l.msg.type]>>
    /\ \A k \in Conns \ {l.conn} : sent'[k] = <<>>
    /\ l.calls = <<>>
    /\ SwitchStateUnchanged

IsSlavePrimary(c) == ofconn_get_type(c) = "OFCONN_PRIMARY" /\ role[c] = "NX_ROLE_SLAVE"

\* The claim C5 as stated: each of FLOW_MOD, PORT_MOD, PACKET_OUT and
\* SET_CONFIG, received on a primary connection whose role is slave, is
\* rejected with BAD_REQUEST/EPERM and changes no state.
C5_AsStated ==
    [][(Handles(last', {"FLOW_MOD", "PORT_MOD", "PACKET_OUT", "SET_CONFIG"})
        /\ IsSlavePrimary(last'.conn))
       => RefusedForRole(last')]_vars

\* C5: FLOW_MOD, PORT_MOD and PACKET_OUT received on a primary connection
\* whose role is slave are rejected with BAD_REQUEST/EPERM before anything
\* else is done with them, and change no state; SET_CONFIG on such a
\* connection is not rejected: it returns success, leaves the fragment
\* policy alone and sets the connection's miss_send_len.  Once the role is
\* master none of the four is rejected with EPERM.
C5_SlaveRejected ==
    [][/\ (Handles(last', {"FLOW_MOD", "PORT_MOD", "PACKET_OUT"})
           /\ IsSlavePrimary(last'.conn))
          => RefusedForRole(last')
       /\ (Handles(last', {"SET_CONFIG"}) /\ IsSlavePrimary(last'.conn))
          => /\ last'.err = OK
             /\ \A k \in Conns : sent'[k] = <<>>
             /\ drop_frags' = drop_frags
             /\ last'.calls = <<>>
             /\ miss_send_len' = [miss_send_len EXCEPT
                                     ![last'.conn] = last'.msg.body.miss_send_len]
             /\ UNCHANGED <<cls, role, ports, devs>>
       /\ (Handles(last', {"FLOW_MOD", "PORT_MOD", "PACKET_OUT", "SET_CONFIG"})
           /\ role[last'.conn] = "NX_ROLE_MASTER")
          => last'.err # "OFPBRC_EPERM"]_vars

\* a slave primary connection has just had a well-formed FLOW_MOD refused
C5_Witness ==
    /\ Handles(last, {"FLOW_MOD"})
    /\ last.msg.body.decode_err = OK
    /\ last.msg.body.command = "OFPFC_ADD"
    /\ last.msg.body.flags = {}
    /\ ofconn_get_type(last.conn) = "OFCONN_PRIMARY"
    /\ role[last.conn] = "NX_ROLE_SLAVE"
    /\ last.err = "OFPBRC_EPERM"

\* C6: a mutating message on a service connection, or on a primary connection
\* whose role is master or other, is never rejected for role reasons, and
\* a SET_CONFIG there sets the fragment policy it carries.
C6_PermittedApplied ==
    [][(Handles(last', {"FLOW_MOD", "PORT_MOD", "PACKET_OUT", "SET_CONFIG"})
        /\ ~IsSlavePrimary(last'.conn))
       => /\ last'.err # "OFPBRC_EPERM"
          /\ last'.msg.type = "SET_CONFIG"
             => /\ miss_send_len'[last'.conn] = last'.msg.body.miss_send_len
                /\ drop_frags' = (last'.msg.body.flags = "OFPC_FRAG_DROP")]_vars

\* C7: whenever a handler returns an error, the sender gets exactly one
\* error reply, with the xid of its message, and no other connection gets
\* one; when the handler returns success nobody gets an error reply.
C7_OneErrorReply ==
    [][Handles(last', {last'.msg.type})
       => IF last'.err # OK
          THEN /\ Len(ErrorsSent(sent', last'.conn)) = 1
               /\ ErrorsSent(sent', last'.conn)[1].xid = last'.msg.xid
               /\ \A k \in Conns \ {last'.conn} : ErrorsSent(sent', k) = <<>>
          ELSE \A k \in Conns : ErrorsSent(sent', k) = <<>>]_vars

IsMalformedFlowMod(l) ==
    /\ Handles(l, {"FLOW_MOD"})
    /\ \/ l.msg.body.decode_err # OK
       \/ "EMERG" \in l.msg.body.flags
       \/ l.msg.body.command \notin {"OFPFC_ADD", "OFPFC_MODIFY", "OFPFC_MODIFY_STRICT",
                                      "OFPFC_DELETE", "OFPFC_DELETE_STRICT"}

\* C8: a FLOW_MOD that fails decoding, carries EMERG or has an unknown
\* command is answered with one OpenFlow error, sent to its sender only and
\* carrying its xid; the flow table, every connection's role and settings,
\* the ports and what the other connections are sent stay as they were.
C8_MalformedFlowMod ==
    [][IsMalformedFlowMod(last')
       => /\ last'.err # OK
          /\ sent'[last'.conn] = <<[type |-> "ERROR", xid |-> last'.msg.xid,
                                    error |-> last'.err, request |-> "FLOW_MOD"]>>
          /\ last'.err =
                (IF IsSlavePrimary(last'.conn) THEN "OFPBRC_EPERM"
                 ELSE IF last'.msg.body.decode_err # OK THEN last'.msg.body.decode_err
                 ELSE IF "EMERG" \in last'.msg.body.flags THEN "OFPFMFC_ALL_TABLES_FULL"
                 ELSE "OFPFMFC_BAD_COMMAND")
          /\ \A k \in Conns \ {last'.conn} : sent'[k] = <<>>
          /\ SwitchStateUnchanged]_vars

\* the table holds a rule and an EMERG flow_mod for another outcome has just
\* been refused as ALL_TABLES_FULL
C8_Witness ==
    /\ IsMalformedFlowMod(last)
    /\ "EMERG" \in last.msg.body.flags
    /\ last.err = "OFPFMFC_ALL_TABLES_FULL"
    /\ cls # {}

\* C9: a connection's messages are handled in the order they arrived, one
\* at a time, and what a message is answered with is sent in the step that
\* handles it, before the next message is looked at and after every earlier
\* one was handled; a BARRIER_REQUEST is answered in that step with one
\* BARRIER_REPLY of the same xid and changes nothing else.
C9_InOrderAndBarrier ==
    [][Handles(last', {last'.msg.type})
       => LET c == last'.conn
          IN /\ inbox[c] # <<>>
             /\ last'.msg = Head(inbox[c])
             /\ inbox' = [inbox EXCEPT ![c] = Tail(@)]
             /\ last'.msg.xid = arrivals[c] - Len(inbox[c]) + 1
             /\ \A i \in 1..Len(inbox'[c]) : inbox'[c][i].xid > last'.msg.xid
             /\ \A i \in 1..Len(sent'[c]) : sent'[c][i].xid = last'.msg.xid
             /\ \A k \in Conns \ {c} : sent'[k] = <<>>
             /\ last'.msg.type = "BARRIER_REQUEST"
                => /\ sent'[c] = <<[type |-> "BARRIER_REPLY", xid |-> last'.msg.xid]>>
                   /\ last'.err = OK
                   /\ SwitchStateUnchanged]_vars

\* a barrier that arrived after a flow_mod and before another message has
\* been answered: the flow_mod's rule is in the table, the later message waits
C9_Witness ==
    /\ Handles(last, {"BARRIER_REQUEST"})
    /\ last.msg.xid = 2
    /\ sent[last.conn] = <<[type |-> "BARRIER_REPLY", xid |-> 2]>>
    /\ cls # {}
    /\ Len(inbox[last.conn]) = 1
    /\ inbox[last.conn][1].xid = 3

\* C10: the by-number index and the by-name index of the port table hold
\* the same port records, each record under its own name, and no two
\* records share an OpenFlow port number or a name.
C10_PortIndicesAgree ==
    /\ {e[2] : e \in port_by_name} = {p.id : p \in ports}
    /\ \A e \in port_by_name : \A p \in ports : p.id = e[2] => p.name = e[1]
    /\ \A p1, p2 \in ports :
          (p1.ofp_port = p2.ofp_port \/ p1.name = p2.name \/ p1.id = p2.id) => p1 = p2
    /\ \A e1, e2 \in port_by_name : (e1[1] = e2[1] \/ e1[2] = e2[2]) => e1 = e2

\* init_ports has installed two ports from a dump that named a device or a
\* port number twice
C10_Witness ==
    /\ last.op = "init_ports"
    /\ Cardinality(ports) = 2
    /\ \E r1, r2 \in dp :
          r1 # r2 /\ (r1.name = r2.name \/ r1.ofp_port = r2.ofp_port)

----------------------------------------------------------------------------
(* Properties of the port table. *)

\* where in the messages s a port status of this reason for (name, number) stands
StatusAt(s, reason, name, q) ==
    {i \in 1..Len(s) : /\ s[i].type = "PORT_STATUS"
                       /\ s[i].reason = reason
                       /\ s[i].desc.name = name
                       /\ s[i].desc.port_no = q}

\* the table holds a port of this name at this number
HasPort(pp, name, q) == \E p \in pp : p.name = name /\ p.ofp_port = q

\* C11: a port appears under a (name, number) it did not have before only
\* by being installed anew, with a port-status ADD, after every port that
\* held that name or that number was removed with a port-status DELETE of
\* its own; a port whose (name, number) is gone was removed with a DELETE;
\* a record's name and number always are those of its description.
C11_MoveIsDeleteThenAdd ==
    [][/\ \A n \in ports' :
            ~HasPort(ports, n.name, n.ofp_port) =>
               /\ Cardinality(StatusAt(sent'[1], "OFPPR_ADD", n.name, n.ofp_port)) >= 1
               /\ \A p \in ports :
                     (p.name = n.name \/ p.ofp_port = n.ofp_port) =>
                        /\ p \notin ports'
                        /\ \E i \in StatusAt(sent'[1], "OFPPR_DELETE", p.name, p.ofp_port) :
                              \E j \in StatusAt(sent'[1], "OFPPR_ADD", n.name, n.ofp_port) :
                                 /\ i < j
                                 /\ \A k \in StatusAt(sent'[1], "OFPPR_ADD",
                                                       n.name, n.ofp_port) : k <= j
       /\ \A p \in ports :
            ~HasPort(ports', p.name, p.ofp_port) =>
               StatusAt(sent'[1], "OFPPR_DELETE", p.name, p.ofp_port) # {}
       /\ \A n \in ports' : n.opp.port_no = n.ofp_port /\ n.opp.name = n.name
       /\ \A k \in Conns : sent'[k] = sent'[1]]_vars

\* update_port has moved a device to a number that another port held: two
\* DELETEs, for the port at the number and for the device's old port, then
\* the ADD
C11_Witness ==
    /\ last.op = "update_port"
    /\ Len(sent[1]) = 3
    /\ sent[1][1].reason = "OFPPR_DELETE"
    /\ sent[1][2].reason = "OFPPR_DELETE"
    /\ sent[1][3].reason = "OFPPR_ADD"
    /\ sent[1][1].desc.port_no = sent[1][3].desc.port_no
    /\ sent[1][1].desc.name # sent[1][3].desc.name
    /\ sent[1][2].desc.name = sent[1][3].desc.name
    /\ sent[1][2].desc.port_no # sent[1][3].desc.port_no
    /\ HasPort(ports, sent[1][3].desc.name, sent[1][3].desc.port_no)
    /\ Cardinality(ports) = 1

\* the steps that work on the port table
PortOps == {"init_ports", "update_port", "reinit_ports", "ofproto_port_add",
            "ofproto_port_del"}

\* C12: (as stated) whenever a port status is emitted the change it reports
\* is in place: for ADD the port is in both indices, for MODIFY the record
\* holds the description sent, for DELETE the port is in neither index.
C12_EmittedAfterChange ==
    last.op \in PortOps =>
       \A i \in 1..Len(last.emitted) :
          LET e == last.emitted[i]
          IN /\ e.reason = "OFPPR_ADD" => e.in_ports /\ e.in_port_by_name
             /\ e.reason = "OFPPR_MODIFY" => e.updated
             /\ e.reason = "OFPPR_DELETE" => ~e.in_ports /\ ~e.in_port_by_name

\* a port status DELETE was emitted while the port was still in both indices,
\* and the port is gone when the step is over
C12_Witness ==
    /\ last.op \in PortOps
    /\ \E i \in 1..Len(last.emitted) :
          /\ last.emitted[i].reason = "OFPPR_DELETE"
          /\ last.emitted[i].in_ports
          /\ last.emitted[i].in_port_by_name
          /\ ~HasPort(ports, last.emitted[i].desc.name, last.emitted[i].desc.port_no)

\* the datapath's port set has unique names and unique numbers
DatapathUnique ==
    \A r1, r2 \in dp : r1 # r2 => r1.name # r2.name /\ r1.ofp_port # r2.ofp_port

\* the port table pt holds exactly the datapath's ports, under both indices
EqualsDatapath(pt) ==
    /\ {<<p.name, p.ofp_port>> : p \in pt.ports} = {<<r.name, r.ofp_port>> : r \in dp}
    /\ Cardinality(pt.ports) = Cardinality(dp)
    /\ \A p \in pt.ports : <<p.name, p.id>> \in pt.by_name
    /\ \A e \in pt.by_name : \E p \in pt.ports : p.name = e[1] /\ p.id = e[2]

\* the environments in which every device opens
DevicesOpen(env) == env.openfail = {}

\* the environments in which every device opens and the provider accepts
\* every port
ProviderAccepts(env) ==
    env.openfail = {} /\ env.allocfail = {} /\ env.constructfail = {}

\* what reinit_ports may leave, over every order of the names and every
\* environment of envs
Rescans(envs) ==
    {reinit_loop(PortTable, order, 1, dp, devs, env) :
        order \in Orders(reinit_names(PortTable, dp)), env \in envs}

----------------------------------------------------------------------------
(* Properties of rules that leave the table. *)

\* the step removes rules at a controller's DELETE or DELETE_STRICT, or at a timeout
IsRemoval(l) ==
    \/ IsFlowMod(l, "OFPFC_DELETE")
    \/ IsFlowMod(l, "OFPFC_DELETE_STRICT")
    \/ l.op = "ofproto_rule_expire"

RemovalReason(l) == IF l.op = "ofproto_rule_expire" THEN l.reason ELSE "OFPRR_DELETE"

\* the flow-removed messages among s that are about rule r
RemovedAt(s, r) ==
    {i \in 1..Len(s) : /\ s[i].type = "FLOW_REMOVED"
                       /\ s[i].match = r.match
                       /\ s[i].priority = r.priority}

\* C14: each removal of a non-hidden rule by DELETE, DELETE_STRICT or a
\* timeout emits exactly one flow-removed message if the rule's
\* send_flow_removed flag is set and none if it is clear; the message has
\* the reason of the cause, and the rule's match, cookie, idle timeout,
\* duration since its creation and packet and byte counts as the rule left.
C14_OneFlowRemoved ==
    [][IsRemoval(last') =>
          /\ \A r \in cls \ cls' :
                ~rule_is_hidden(r) =>
                   /\ Cardinality(RemovedAt(sent'[1], r))
                         = (IF r.send_flow_removed THEN 1 ELSE 0)
                   /\ \A i \in RemovedAt(sent'[1], r) :
                         LET fr == sent'[1][i]
                         IN /\ fr.reason = RemovalReason(last')
                            /\ fr.cookie = r.flow_cookie
                            /\ fr.idle_timeout = r.idle_timeout
                            /\ fr.duration_sec * 1000 + fr.duration_nsec \div 1000000
                                  = now - r.created
                            /\ fr.packet_count = r.packet_count
                            /\ fr.byte_count = r.byte_count
          /\ \A i \in 1..Len(sent'[1]) :
                sent'[1][i].type = "FLOW_REMOVED" =>
                   \E r \in cls \ cls' : i \in RemovedAt(sent'[1], r)
          /\ \A k \in Conns : \A i \in 1..Len(sent'[k]) :
                sent'[k][i].type = "FLOW_REMOVED" => sent'[k] = sent'[1]]_vars

\* a DELETE has removed two rules, one with the flag and one without, the
\* flagged one a second old and credited with a packet: one message
C14_Witness ==
    /\ IsFlowMod(last, "OFPFC_DELETE")
    /\ last.n_flows = 2
    /\ cls = {}
    /\ Len(sent[1]) = 1
    /\ sent[1][1].type = "FLOW_REMOVED"
    /\ sent[1][1].reason = "OFPRR_DELETE"
    /\ sent[1][1].duration_sec = 1
    /\ sent[1][1].packet_count = 1
    /\ sent[1][1].byte_count = PacketLen

\* C15: at a DELETE, a DELETE_STRICT or a timeout the flow-removed message
\* of a rule is handed over while the rule is still in the flow table,
\* before ->rule_remove() takes it out of the classifier and
\* ->rule_destruct() destructs it; when the operation is over neither an
\* exact search nor a lookup returns the rule.
C15_RemovedAfterNotified ==
    [][IsRemoval(last') =>
          /\ \A i \in 1..Len(last'.calls) :
                last'.calls[i][1] = "connmgr_send_flow_removed" =>
                   LET m == last'.calls[i][2]
                       p == last'.calls[i][3]
                   IN /\ classifier_find_rule_exactly(cls, m, p) # {}
                      /\ \A j \in 1..(i - 1) : last'.calls[j] # <<"rule_remove", m, p>>
                      /\ \E j \in (i + 1)..Len(last'.calls) :
                            /\ last'.calls[j] = <<"rule_remove", m, p>>
                            /\ \E k \in (j + 1)..Len(last'.calls) :
                                  last'.calls[k] = <<"rule_destruct", m, p>>
                      /\ classifier_find_rule_exactly(cls', m, p) = {}
                      /\ \A f \in Flows : \A r \in classifier_lookup(cls', f) :
                            ~(r.match = m /\ r.priority = p)
          /\ Cardinality({i \in 1..Len(last'.calls) :
                             last'.calls[i][1] = "connmgr_send_flow_removed"})
                = Cardinality({i \in 1..Len(sent'[1]) : sent'[1][i].type = "FLOW_REMOVED"})
          /\ \A r \in cls \ cls' :
                /\ \E i \in 1..Len(last'.calls) : last'.calls[i] = Call("rule_remove", r)
                /\ \A f \in Flows : r \notin classifier_lookup(cls', f)]_vars

\* a DELETE has removed two rules with the flag set: the second message was
\* handed over after the first rule had left the classifier
C15_Witness ==
    /\ IsFlowMod(last, "OFPFC_DELETE")
    /\ cls = {}
    /\ \E i, j, k \in 1..Len(last.calls) :
          /\ i < j /\ j < k
          /\ last.calls[i][1] = "connmgr_send_flow_removed"
          /\ last.calls[j][1] = "rule_remove"
          /\ last.calls[k][1] = "connmgr_send_flow_removed"
          /\ last.calls[i][2] = last.calls[j][2]
          /\ last.calls[k][2] # last.calls[j][2]

----------------------------------------------------------------------------
(* Properties of expiry. *)

Times == {k * 1000 : k \in 0..MaxTicks}

\* the table holds a rule for match m, created at c, whose hard timeout
\* falls within the time the clock covers
HardTimed(m, c) ==
    \E r \in cls : /\ r.match = m /\ r.created = c
                    /\ r.hard_timeout > 0
                    /\ c + r.hard_timeout * 1000 <= MaxTicks * 1000

\* run() has just expired that rule for its hard timeout
ExpiredHard(m, c) ==
    /\ last.op = "run"
    /\ \E i \in 1..Len(last.expired) :
          /\ last.expired[i].rule.match = m
          /\ last.expired[i].rule.created = c
          /\ last.expired[i].reason = "OFPRR_HARD_TIMEOUT"

\* C16: (as stated) every rule installed with a hard timeout is eventually
\* removed by expiry with reason HARD_TIMEOUT.
C16_AsStated ==
    \A m \in LifeMatches : \A c \in Times : HardTimed(m, c) ~> ExpiredHard(m, c)

\* C16: a rule installed with a hard timeout eventually leaves the table;
\* run() expires a rule only for a timeout it has reached, creation time +
\* timeout seconds or later; a rule with a hard timeout that is still in
\* the table when run() is called at or after that instant is expired by
\* that run with reason HARD_TIMEOUT, so that no rule past its timeout
\* outlives a run; no lookup returns an expired rule.
C16_HardTimeoutExpires ==
    /\ \A m \in LifeMatches : \A c \in Times : HardTimed(m, c) ~> ~HardTimed(m, c)
    /\ [][last'.op = "run" =>
             /\ \A i \in 1..Len(last'.expired) :
                   LET e == last'.expired[i]
                   IN /\ e.rule \in cls
                      /\ e.rule \notin cls'
                      /\ e.reason = "OFPRR_HARD_TIMEOUT" =>
                            /\ e.rule.hard_timeout > 0
                            /\ now >= e.rule.created + e.rule.hard_timeout * 1000
                      /\ e.reason = "OFPRR_IDLE_TIMEOUT" =>
                            /\ e.rule.idle_timeout > 0
                            /\ now >= e.rule.created + e.rule.idle_timeout * 1000
                      /\ \A f \in Flows : e.rule \notin classifier_lookup(cls', f)
             /\ \A r \in cls :
                   (r.hard_timeout > 0 /\ now >= r.created + r.hard_timeout * 1000) =>
                      /\ r \notin cls'
                      /\ \E i \in 1..Len(last'.expired) :
                            /\ last'.expired[i].rule = r
                            /\ last'.expired[i].reason = "OFPRR_HARD_TIMEOUT"
             /\ \A r \in cls \ cls' :
                   \E i \in 1..Len(last'.expired) : last'.expired[i].rule = r]_vars

\* run() has expired a rule a second after its creation, its hard timeout,
\* and sent the flow-removed message
C16_Witness ==
    /\ last.op = "run"
    /\ Len(last.expired) >= 1
    /\ last.expired[1].reason = "OFPRR_HARD_TIMEOUT"
    /\ now = last.expired[1].rule.created + last.expired[1].rule.hard_timeout * 1000
    /\ last.expired[1].rule \notin cls
    /\ Len(sent[1]) >= 1
    /\ sent[1][1].reason = "OFPRR_HARD_TIMEOUT"

----------------------------------------------------------------------------
(* Properties of hidden rules. *)

\* C17: whatever FLOW_MOD a controller sends (ADD, MODIFY, MODIFY_STRICT,
\* DELETE, DELETE_STRICT, with any match, any priority it can name and any
\* out_port), every hidden rule is in the flow table afterwards as it was
\* before, with the same actions and the same cookie.
C17_HiddenUntouched ==
    [][last'.op = "handle_openflow" =>
          \A r \in cls :
             rule_is_hidden(r) =>
                /\ r \in cls'
                /\ \A n \in classifier_find_rule_exactly(cls', r.match, r.priority) :
                      n.actions = r.actions /\ n.flow_cookie = r.flow_cookie]_vars

\* a DELETE of everything, with the out_port the hidden rule outputs to or
\* with none, has removed nothing but left a hidden rule that it covers
C17_Witness ==
    /\ IsFlowMod(last, "OFPFC_DELETE")
    /\ last.msg.body.match = <<Wild, Wild>>
    /\ last.err = OK
    /\ last.n_flows = 1
    /\ \E r \in cls : rule_is_hidden(r) /\ rule_has_out_port(r, last.msg.body.out_port)

\* the rules of c that a statistics request req is about
Reportable(c, req) ==
    {r \in c : /\ match_subsumed(r.match, req.match)
               /\ ~rule_is_hidden(r)
               /\ rule_has_out_port(r, req.out_port)}

RECURSIVE SumPackets(_)
SumPackets(S) ==
    IF S = {} THEN 0
    ELSE LET r == CHOOSE x \in S : TRUE IN r.packet_count + SumPackets(S \ {r})

RECURSIVE SumBytes(_)
SumBytes(S) ==
    IF S = {} THEN 0
    ELSE LET r == CHOOSE x \in S : TRUE IN r.byte_count + SumBytes(S \ {r})

IsStatsReply(l, types) ==
    /\ l.op = "handle_openflow"
    /\ l.msg.type \in types
    /\ l.err = OK

\* C18: hidden rules are never reported to controllers.  A flow-stats reply
\* in either form has one entry for each visible rule the request is about
\* and none for a hidden rule; an aggregate reply counts those rules and
\* their packets and bytes only; no step that removes a hidden rule sends a
\* flow-removed message for it; the dump of all flows has a line for every
\* rule, hidden ones too.
C18_HiddenNotReported ==
    [][/\ IsStatsReply(last', {"OFPST_FLOW_REQUEST", "NXST_FLOW_REQUEST"}) =>
            LET body == sent'[1][1].body
                req == last'.msg.body
                about == IF is_valid_table(req.table_id)
                         THEN Reportable(cls, req) ELSE {}
            IN /\ Len(sent'[1]) = 1
               /\ Len(body) = Cardinality(about)
               /\ \A i \in 1..Len(body) : body[i].priority <= UINT16_MAX
               /\ \A r \in about :
                     \E i \in 1..Len(body) :
                        /\ body[i].match = r.match /\ body[i].priority = r.priority
                        /\ body[i].cookie = r.flow_cookie
                        /\ body[i].packet_count = r.packet_count
                        /\ body[i].byte_count = r.byte_count
                        /\ body[i].actions = r.actions
               /\ sent'[2] = <<>>
       /\ IsStatsReply(last', {"OFPST_AGGREGATE_REQUEST", "NXST_AGGREGATE_REQUEST"}) =>
            LET body == sent'[1][1].body
                req == last'.msg.body
                about == IF is_valid_table(req.table_id)
                         THEN Reportable(cls, req) ELSE {}
            IN /\ Len(sent'[1]) = 1
               /\ body.flow_count = Cardinality(about)
               /\ body.packet_count = SumPackets(about)
               /\ body.byte_count = SumBytes(about)
       /\ \A r \in cls :
            (rule_is_hidden(r) /\ classifier_find_rule_exactly(cls', r.match, r.priority) = {})
               => \A k \in Conns : RemovedAt(sent'[k], r) = {}
       /\ \A k \in Conns : \A i \in 1..Len(sent'[k]) :
            sent'[k][i].type = "FLOW_REMOVED" => sent'[k][i].priority <= UINT16_MAX
       /\ \A r \in cls : \A reason \in {"OFPRR_IDLE_TIMEOUT", "OFPRR_HARD_TIMEOUT"} :
            rule_is_hidden(r) =>
               /\ ofproto_rule_send_removed(r, reason, now) = <<>>
               /\ ofproto_rule_send_removed_calls(r) = <<>>
       /\ last'.op = "ofproto_get_all_flows" =>
            /\ Len(last'.results) = Cardinality(cls)
            /\ \A r \in cls :
                  \E i \in 1..Len(last'.results) :
                     /\ last'.results[i].match = r.match
                     /\ last'.results[i].priority = r.priority]_vars

\* a flow-stats request for everything has been answered with the one
\* visible rule of a table that holds a hidden rule with packets beside it
C18_Witness ==
    /\ IsStatsReply(last, {"OFPST_FLOW_REQUEST", "NXST_FLOW_REQUEST"})
    /\ last.msg.body.match = <<Wild, Wild>>
    /\ last.msg.body.out_port = OFPP_NONE
    /\ last.msg.body.table_id = 0
    /\ Cardinality(cls) = 2
    /\ \E r \in cls : rule_is_hidden(r) /\ r.packet_count > 0
    /\ Len(sent[1]) = 1
    /\ Len(sent[1][1].body) = 1

----------------------------------------------------------------------------
(* Properties of MODIFY. *)

\* the request fm, loose or strict, matches no rule that controllers see
NoVisibleMatch(c, fm) ==
    IF fm.command = "OFPFC_MODIFY"
    THEN \A r \in cls_cursor(c, fm.match) : rule_is_hidden(r)
    ELSE \A r \in find_flow_strict(c, fm) : rule_is_hidden(r)

Modify(c, fm, t, env) ==
    IF fm.command = "OFPFC_MODIFY"
    THEN modify_flows_loose(c, fm, t, env)
    ELSE modify_flow_strict(c, fm, t, env)

\* C19: a MODIFY or MODIFY_STRICT that matches no visible rule does what an
\* ADD of the same match, priority, actions, cookie, timeouts, flags and
\* buffer id does: the same flow table, the same status or error (the
\* CHECK_OVERLAP check included) and the same calls of the provider.  The
\* step of the switch is compared with add_flow, and so is the handler on
\* every table reached, for every buffer id and every answer of the provider.
C19_ModifyActsAsAdd ==
    /\ [][((IsFlowMod(last', "OFPFC_MODIFY") \/ IsFlowMod(last', "OFPFC_MODIFY_STRICT"))
           /\ NoVisibleMatch(cls, last'.msg.body))
          => \E prov \in {"ok", "alloc_fail", "construct_fail"} :
                LET fm == last'.msg.body
                    add == add_flow(cls, [fm EXCEPT !.command = "OFPFC_ADD"], now,
                                    [NoEnv EXCEPT !.prov = prov])
                IN /\ cls' = add.cls
                   /\ last'.err = add.err
                   /\ last'.calls = add.calls
                   /\ \A k \in Conns : \A i \in 1..Len(sent'[k]) :
                         sent'[k][i].type = "ERROR"]_vars
    /\ [](\A fm \in FlowMods : \A buf \in {"NONE", "VALID", "STALE"} :
             (fm.command \in {"OFPFC_MODIFY", "OFPFC_MODIFY_STRICT"}
              /\ NoVisibleMatch(cls, fm))
                => \A env \in FlowEnvs(fm) :
                      LET req == [fm EXCEPT !.buffer_id = buf]
                          mod == Modify(cls, req, now, env)
                          add == add_flow(cls, [req EXCEPT !.command = "OFPFC_ADD"],
                                          now, env)
                      IN /\ mod.cls = add.cls
                         /\ mod.err = add.err
                         /\ mod.calls = add.calls
                         /\ mod.out = add.out)

\* a MODIFY whose match covers a hidden rule and no visible one has added
\* the rule it asked for
C19_Witness ==
    /\ IsFlowMod(last, "OFPFC_MODIFY")
    /\ last.err = OK
    /\ last.n_flows = 1
    /\ Cardinality(cls) = 2
    /\ \E r \in cls : rule_is_hidden(r) /\ match_subsumed(r.match, last.msg.body.match)
    /\ \E r \in cls : r.match = last.msg.body.match /\ r.priority = last.msg.body.priority

\* the (match, priority) pairs of the rules of c
Keys(c) == {<<r.match, r.priority>> : r \in c}

\* rule r as a MODIFY fm leaves it when it modifies it
Modified(r, fm) == [r EXCEPT !.actions = fm.actions, !.flow_cookie = fm.cookie]

----------------------------------------------------------------------------
(* Properties of a repeated DELETE. *)

\* what a handler has left is a success that removed nothing from table c
\* and told nobody anything
RemovedNothing(st, c) ==
    /\ st.err = OK
    /\ st.cls = c
    /\ st.out = <<>>
    /\ st.reply = <<>>
    /\ st.calls = <<>>

\* C21: a DELETE or DELETE_STRICT that follows at once upon an identical one
\* that succeeded removes no rule, emits no flow-removed message, returns
\* success and leaves the flow table as the first left it, in whatever
\* order the cursor visits the rules.
C21_DeleteTwice ==
    [][((IsFlowMod(last', "OFPFC_DELETE") \/ IsFlowMod(last', "OFPFC_DELETE_STRICT"))
        /\ last'.err = OK)
       => \A env \in {NoEnv} \cup {[NoEnv EXCEPT !.order = o] : o \in Orders(cls')} :
             RemovedNothing(handle_openflow(last'.conn, last'.msg, Pre', now', env), cls')]_vars

\* a DELETE of everything has removed two rules, one of them with a
\* flow-removed message
C21_Witness ==
    /\ IsFlowMod(last, "OFPFC_DELETE")
    /\ last.err = OK
    /\ last.n_flows = 2
    /\ cls = {}
    /\ \E i \in 1..Len(sent[1]) : sent[1][i].type = "FLOW_REMOVED"

----------------------------------------------------------------------------
(* Properties of the replies to statistics requests. *)

IsStatsRequest(l) ==
    /\ l.op = "handle_openflow"
    /\ l.msg.type \in {"OFPST_FLOW_REQUEST", "OFPST_AGGREGATE_REQUEST",
                       "NXST_FLOW_REQUEST", "NXST_AGGREGATE_REQUEST"}
    /\ l.err = OK

\* the statistics type a reply to a request of type t has
ReplyStat(t) ==
    CASE t = "OFPST_FLOW_REQUEST" -> "OFPST_FLOW"
      [] t = "OFPST_AGGREGATE_REQUEST" -> "OFPST_AGGREGATE"
      [] t = "NXST_FLOW_REQUEST" -> "NXST_FLOW"
      [] t = "NXST_AGGREGATE_REQUEST" -> "NXST_AGGREGATE"

RECURSIVE SumLengths(_, _)
SumLengths(body, i) ==
    IF i > Len(body) THEN 0 ELSE body[i].length + SumLengths(body, i + 1)

\* the bytes of reply m: its header and its entries, each of them whole
ReplyBytes(m) ==
    CASE m.stat = "OFPST_FLOW" -> sizeof_ofp_stats_reply + SumLengths(m.body, 1)
      [] m.stat = "NXST_FLOW" -> sizeof_nicira_stats_msg + SumLengths(m.body, 1)
      [] m.stat = "OFPST_AGGREGATE" ->
             sizeof_ofp_stats_reply + sizeof_ofp_aggregate_stats_reply
      [] m.stat = "NXST_AGGREGATE" ->
             sizeof_nicira_stats_msg + sizeof_ofp_aggregate_stats_reply

RECURSIVE Entries(_, _)
Entries(replies, i) ==
    IF i > Len(replies) THEN <<>> ELSE replies[i].body \o Entries(replies, i + 1)

\* C22: (as stated) a statistics request over any flow table a controller
\* can install fails no size assertion and is answered by replies of at most
\* 65,535 bytes that hold whole entries only, carry the request's xid and
\* its type, all but the last with the MORE flag and the last without, and
\* hold between them one entry for every rule reported.
C22_RepliesBounded ==
    [][(last'.op = "handle_openflow"
        /\ last'.msg.type \in {"OFPST_FLOW_REQUEST", "NXST_FLOW_REQUEST"}
        /\ last'.err = OK)
       => /\ ~last'.abort
          /\ Len(sent'[1]) >= 1
          /\ \A i \in 1..Len(sent'[1]) :
                /\ sent'[1][i].type = "STATS_REPLY"
                /\ sent'[1][i].size <= UINT16_MAX
                /\ sent'[1][i].size = ReplyBytes(sent'[1][i])
                /\ sent'[1][i].xid = last'.msg.xid
                /\ sent'[1][i].stat = ReplyStat(last'.msg.type)
                /\ ("OFPSF_REPLY_MORE" \in sent'[1][i].flags) = (i < Len(sent'[1]))
          /\ Len(Entries(sent'[1], 1)) = Cardinality(Reportable(cls, last'.msg.body))]_vars

\* a flow-stats request has been answered in two replies, the first of them
\* with the MORE flag
C22_Witness ==
    /\ IsStatsRequest(last)
    /\ ~last.abort
    /\ Len(sent[1]) = 2
    /\ "OFPSF_REPLY_MORE" \in sent[1][1].flags
    /\ Len(sent[1][1].body) = 1
    /\ Len(sent[1][2].body) = 1

\* C23: an aggregate-stats reply for a valid table id reports as flow_count
\* the number of visible rules whose match the query's match subsumes and
\* that output to the requested out_port (all of them when it is
\* OFPP_NONE), and as packet_count and byte_count the sums of the counters
\* the datapath holds for exactly those rules.
C23_AggregateCounts ==
    [][(/\ IsStatsRequest(last')
        /\ last'.msg.type \in {"OFPST_AGGREGATE_REQUEST", "NXST_AGGREGATE_REQUEST"}
        /\ is_valid_table(last'.msg.body.table_id))
       => /\ Len(sent'[1]) = 1
          /\ sent'[1][1].body =
                [flow_count |-> Cardinality(Reportable(cls, last'.msg.body)),
                 packet_count |-> SumPackets(Reportable(cls, last'.msg.body)),
                 byte_count |-> SumBytes(Reportable(cls, last'.msg.body))]
          /\ Len(last'.calls) = Cardinality(Reportable(cls, last'.msg.body))
          /\ \A i \in 1..Len(last'.calls) : last'.calls[i][1] = "rule_get_stats"]_vars

\* an aggregate request for the rules that output to port 2 has counted one
\* of two visible rules, each with a packet
C23_Witness ==
    /\ IsStatsRequest(last)
    /\ last.msg.type = "OFPST_AGGREGATE_REQUEST"
    /\ last.msg.body.out_port = 2
    /\ last.msg.body.match = <<Wild, Wild>>
    /\ Cardinality({r \in cls : ~rule_is_hidden(r) /\ r.packet_count = 1}) = 2
    /\ sent[1][1].body.flow_count = 1
    /\ sent[1][1].body.packet_count = 1
    /\ sent[1][1].body.byte_count = PacketLen

\* the body of a reply that reports nothing
EmptyBody(type) ==
    IF type \in {"OFPST_FLOW_REQUEST", "NXST_FLOW_REQUEST"}
    THEN <<>>
    ELSE [flow_count |-> 0, packet_count |-> 0, byte_count |-> 0]

\* C24: a flow-stats or aggregate-stats request for a table other than 0 and
\* 0xff is answered with success and an empty result (no entry; no flow, no
\* packet, no byte) and never with an error, and a request for table 0 is
\* answered as the same request for table 0xff.
C24_InvalidTable ==
    /\ [][(/\ last'.op = "handle_openflow"
           /\ last'.msg.type \in {"OFPST_FLOW_REQUEST", "OFPST_AGGREGATE_REQUEST",
                                  "NXST_FLOW_REQUEST", "NXST_AGGREGATE_REQUEST"}
           /\ last'.msg.body.decode_err = OK
           /\ last'.msg.body.table_id \notin {0, 255})
          => /\ last'.err = OK
             /\ Len(sent'[1]) = 1
             /\ sent'[1][1].type = "STATS_REPLY"
             /\ sent'[1][1].stat = ReplyStat(last'.msg.type)
             /\ sent'[1][1].xid = last'.msg.xid
             /\ sent'[1][1].body = EmptyBody(last'.msg.type)
             /\ last'.calls = <<>>
             /\ cls' = cls]_vars
    /\ [](\A req \in StatsRequests : \A env \in StatsEnvs :
             handle_openflow(1, [req EXCEPT !.body.table_id = 0], Pre, now, env)
                = handle_openflow(1, [req EXCEPT !.body.table_id = 255], Pre, now, env))

\* a flow-stats request for table 1 has been answered with no entry although
\* the table holds a visible rule, which the same request for table 0xff
\* would report
C24_Witness ==
    /\ last.op = "handle_openflow"
    /\ last.msg.type = "OFPST_FLOW_REQUEST"
    /\ last.msg.body.table_id = 1
    /\ last.err = OK
    /\ sent[1][1].body = <<>>
    /\ \E r \in cls : ~rule_is_hidden(r)
    /\ \A env \in StatsEnvs :
          handle_openflow(1, [last.msg EXCEPT !.body.table_id = 255],
                          Pre, now, env).reply[1].body # <<>>

----------------------------------------------------------------------------
(* The nx_match codec of lib/nx-match.c.  A buffer is a sequence of bytes;  *)
(* values of the types ovs_be16, ovs_be32 and ovs_be64 are sequences of     *)
(* bytes in network order.  The model carries the fields in_port, dl_type,  *)
(* nw_proto, nw_ttl, tp_src and tun_id of a cls_rule, and the cookie.       *)

Zeros(n) == [i \in 1..n |-> 0]
Ones(n) == [i \in 1..n |-> 255]

RECURSIVE And8(_, _, _)
\* the bitwise and of the lowest n bits of a and b
And8(a, b, n) ==
    IF n = 0 THEN 0
    ELSE ((a % 2) * (b % 2)) + 2 * And8(a \div 2, b \div 2, n - 1)

\* value & mask, byte by byte
Masked(value, mask) == [i \in 1..Len(value) |-> And8(value[i], mask[i], 8)]

htons(n) == <<n \div 256, n % 256>>
ntohs(b) == b[1] * 256 + b[2]

\* NXM_HEADER and NXM_HEADER_W: vendor or class (16 bits), field (7 bits),
\* hasmask (1 bit), length of the payload (8 bits), in network order
NXM_HEADER(vendor, field, length) ==
    <<vendor \div 256, vendor % 256, field * 2, length>>
NXM_MAKE_WILD_HEADER(header) ==
    <<header[1], header[2], header[3] + 1, header[4] * 2>>
NXM_LENGTH(header) == header[4]
NXM_HASMASK(header) == header[3] % 2 = 1

NXM_OF_IN_PORT == NXM_HEADER(0, 0, 2)
NXM_OF_ETH_TYPE == NXM_HEADER(0, 3, 2)
NXM_OF_IP_PROTO == NXM_HEADER(0, 6, 1)
NXM_OF_TCP_SRC == NXM_HEADER(0, 9, 2)
NXM_NX_TUN_ID == NXM_HEADER(1, 16, 8)
NXM_NX_IP_TTL == NXM_HEADER(1, 29, 1)
NXM_NX_COOKIE == NXM_HEADER(1, 30, 8)
NXM_NX_COOKIE_W == NXM_MAKE_WILD_HEADER(NXM_NX_COOKIE)
OXM_OF_IN_PORT == NXM_HEADER(32768, 0, 4)
OXM_OF_ETH_TYPE == NXM_HEADER(32768, 5, 2)
OXM_OF_IP_PROTO == NXM_HEADER(32768, 10, 1)
OXM_OF_TCP_SRC == NXM_HEADER(32768, 13, 2)

ETH_TYPE_IP == htons(2048)
ETH_TYPE_ARP == htons(2054)
IPPROTO_TCP == 6
OFPP_MAX == 65280

\* struct cls_rule: the flow, and the wildcards as the FWW_ bits and the
\* masks of the fields that can be masked bit by bit
cls_rule_init_catchall ==
    [flow |-> [in_port |-> 0, dl_type |-> Zeros(2), nw_proto |-> 0, nw_ttl |-> 0,
               tp_src |-> Zeros(2), tun_id |-> Zeros(8)],
     wc |-> [wildcards |-> {"FWW_IN_PORT", "FWW_DL_TYPE", "FWW_NW_PROTO", "FWW_NW_TTL"},
             tp_src_mask |-> Zeros(2), tun_id_mask |-> Zeros(8)]]

\* nxm_put_header, nxm_put_8, nxm_put_16, nxm_put_32, nxm_put_64
nxm_put(b, header, value) == b \o header \o value

\* nxm_put_16w, nxm_put_32w, nxm_put_64w
nxm_put_w(b, header, value, mask) == b \o header \o value \o mask

\* nxm_put_16m, nxm_put_32m, nxm_put_64m: nothing for a mask of zeros, the
\* value for a mask of ones, the value and the mask otherwise
nxm_put_m(b, header, value, mask) ==
    IF mask = Zeros(Len(mask)) THEN b
    ELSE IF mask = Ones(Len(mask)) THEN nxm_put(b, header, value)
    ELSE nxm_put_w(b, NXM_MAKE_WILD_HEADER(header), value, mask)

\* ofputil_port_to_ofp11 of a port below OFPP_MAX, then as an ovs_be32
ofputil_port_to_ofp11(in_port) == <<0, 0>> \o htons(in_port)

\* ofputil_port_from_ofp11: [error, port]
ofputil_port_from_ofp11(port_of11) ==
    IF port_of11[1] = 0 /\ port_of11[2] = 0 /\ ntohs(SubSeq(port_of11, 3, 4)) < OFPP_MAX
    THEN [error |-> OK, port |-> ntohs(SubSeq(port_of11, 3, 4))]
    ELSE [error |-> "OFPERR_OFPBAC_BAD_OUT_PORT", port |-> 0]

sizeof_ofp11_match_header == 4

\* nx_padded_match_len: the match and the header before it, rounded up to
\* a multiple of 8, less the header
nx_padded_match_len(match_len, hdr_len) ==
    ((match_len + hdr_len + 7) \div 8) * 8 - hdr_len

\* the metadata part of nx_put_match
nx_put_in_port(b, oxm, cr) ==
    IF "FWW_IN_PORT" \notin cr.wc.wildcards
    THEN IF oxm
         THEN nxm_put(b, OXM_OF_IN_PORT, ofputil_port_to_ofp11(cr.flow.in_port))
         ELSE nxm_put(b, NXM_OF_IN_PORT, htons(cr.flow.in_port))
    ELSE b

\* the Ethernet part of nx_put_match
nx_put_eth_type(b, oxm, cr) ==
    IF "FWW_DL_TYPE" \notin cr.wc.wildcards
    THEN nxm_put(b, IF oxm THEN OXM_OF_ETH_TYPE ELSE NXM_OF_ETH_TYPE, cr.flow.dl_type)
    ELSE b

\* nxm_put_ip, time to live: not in the OXM dialect
nxm_put_ip_ttl(b, oxm, cr) ==
    IF ~oxm /\ "FWW_NW_TTL" \notin cr.wc.wildcards
    THEN nxm_put(b, NXM_NX_IP_TTL, <<cr.flow.nw_ttl>>)
    ELSE b

\* nxm_put_ip, protocol and transport ports
nxm_put_ip_proto(b, oxm, cr) ==
    IF "FWW_NW_PROTO" \notin cr.wc.wildcards
    THEN IF cr.flow.nw_proto = IPPROTO_TCP
         THEN nxm_put_m(nxm_put(b, IF oxm THEN OXM_OF_IP_PROTO ELSE NXM_OF_IP_PROTO,
                                <<cr.flow.nw_proto>>),
                        IF oxm THEN OXM_OF_TCP_SRC ELSE NXM_OF_TCP_SRC,
                        cr.flow.tp_src, cr.wc.tp_src_mask)
         ELSE nxm_put(b, IF oxm THEN OXM_OF_IP_PROTO ELSE NXM_OF_IP_PROTO,
                      <<cr.flow.nw_proto>>)
    ELSE b

\* the L3 part of nx_put_match
nx_put_l3(b, oxm, cr) ==
    IF "FWW_DL_TYPE" \notin cr.wc.wildcards /\ cr.flow.dl_type = ETH_TYPE_IP
    THEN nxm_put_ip_proto(nxm_put_ip_ttl(b, oxm, cr), oxm, cr)
    ELSE b

\* the end of nx_put_match: the length of the match and the padding
nx_put_padded(start_len, oxm, b) ==
    [b |-> b \o Zeros(nx_padded_match_len(Len(b) - start_len,
                                          IF oxm THEN sizeof_ofp11_match_header ELSE 0)
                      - (Len(b) - start_len)),
     match_len |-> Len(b) - start_len]

\* nx_put_match: [b, match_len]
nx_put_match(b, oxm, cr, cookie, cookie_mask) ==
    nx_put_padded(Len(b), oxm,
        nxm_put_m(
            nxm_put_m(
                nx_put_l3(nx_put_eth_type(nx_put_in_port(b, oxm, cr), oxm, cr), oxm, cr),
                NXM_NX_TUN_ID, cr.flow.tun_id, cr.wc.tun_id_mask),
            NXM_NX_COOKIE, cookie, cookie_mask))

NULL == "NULL"

\* nx_entry_ok: the header of the entry at p, or 0 (here the empty
\* sequence) when fewer than four bytes are left, the payload is empty or
\* it runs past the match
nx_entry_ok(p, match_len) ==
    IF match_len < 4 THEN <<>>
    ELSE IF NXM_LENGTH(SubSeq(p, 1, 4)) = 0 THEN <<>>
    ELSE IF match_len < NXM_LENGTH(SubSeq(p, 1, 4)) + 4 THEN <<>>
    ELSE SubSeq(p, 1, 4)

\* mf_from_nxm_header: the field that has this NXM or OXM header, with the
\* masked header for the fields that can be masked; the cookie is no field
mf_from_nxm_header(header) ==
    IF header \in {NXM_OF_IN_PORT, OXM_OF_IN_PORT} THEN "MFF_IN_PORT"
    ELSE IF header \in {NXM_OF_ETH_TYPE, OXM_OF_ETH_TYPE} THEN "MFF_ETH_TYPE"
    ELSE IF header \in {NXM_OF_IP_PROTO, OXM_OF_IP_PROTO} THEN "MFF_IP_PROTO"
    ELSE IF header = NXM_NX_IP_TTL THEN "MFF_IP_TTL"
    ELSE IF header \in {NXM_OF_TCP_SRC, OXM_OF_TCP_SRC,
                        NXM_MAKE_WILD_HEADER(NXM_OF_TCP_SRC),
                        NXM_MAKE_WILD_HEADER(OXM_OF_TCP_SRC)} THEN "MFF_TCP_SRC"
    ELSE IF header \in {NXM_NX_TUN_ID, NXM_MAKE_WILD_HEADER(NXM_NX_TUN_ID)} THEN "MFF_TUN_ID"
    ELSE NULL

\* mf->n_bytes
n_bytes(mf) ==
    CASE mf = "MFF_IN_PORT" -> 2
      [] mf = "MFF_ETH_TYPE" -> 2
      [] mf = "MFF_IP_PROTO" -> 1
      [] mf = "MFF_IP_TTL" -> 1
      [] mf = "MFF_TCP_SRC" -> 2
      [] mf = "MFF_TUN_ID" -> 8

\* mf_are_prereqs_ok
mf_are_prereqs_ok(mf, flow) ==
    CASE mf \in {"MFF_IP_PROTO", "MFF_IP_TTL"} -> flow.dl_type = ETH_TYPE_IP
      [] mf = "MFF_TCP_SRC" -> flow.dl_type = ETH_TYPE_IP /\ flow.nw_proto = IPPROTO_TCP
      [] OTHER -> TRUE

\* mf_is_all_wild
mf_is_all_wild(mf, wc) ==
    CASE mf = "MFF_IN_PORT" -> "FWW_IN_PORT" \in wc.wildcards
      [] mf = "MFF_ETH_TYPE" -> "FWW_DL_TYPE" \in wc.wildcards
      [] mf = "MFF_IP_PROTO" -> "FWW_NW_PROTO" \in wc.wildcards
      [] mf = "MFF_IP_TTL" -> "FWW_NW_TTL" \in wc.wildcards
      [] mf = "MFF_TCP_SRC" -> wc.tp_src_mask = Zeros(2)
      [] mf = "MFF_TUN_ID" -> wc.tun_id_mask = Zeros(8)

\* cls_rule_set_in_port
cls_rule_set_in_port(rule, port) ==
    [rule EXCEPT !.wc.wildcards = @ \ {"FWW_IN_PORT"}, !.flow.in_port = port]

\* mf_set_value: the field matches the value exactly
mf_set_value(mf, value, rule) ==
    CASE mf = "MFF_IN_PORT" -> cls_rule_set_in_port(rule, ntohs(value))
      [] mf = "MFF_ETH_TYPE" ->
            [rule EXCEPT !.wc.wildcards = @ \ {"FWW_DL_TYPE"}, !.flow.dl_type = value]
      [] mf = "MFF_IP_PROTO" ->
            [rule EXCEPT !.wc.wildcards = @ \ {"FWW_NW_PROTO"}, !.flow.nw_proto = value[1]]
      [] mf = "MFF_IP_TTL" ->
            [rule EXCEPT !.wc.wildcards = @ \ {"FWW_NW_TTL"}, !.flow.nw_ttl = value[1]]
      [] mf = "MFF_TCP_SRC" ->
            [rule EXCEPT !.wc.tp_src_mask = Ones(2), !.flow.tp_src = value]
      [] mf = "MFF_TUN_ID" ->
            [rule EXCEPT !.wc.tun_id_mask = Ones(8), !.flow.tun_id = value]

\* mf_set of a field that can be masked: wildcarded again for a mask of
\* zeros, exact for a mask of ones, the bits under the mask otherwise
mf_set(mf, value, mask, rule) ==
    IF mask = Zeros(Len(mask))
    THEN IF mf = "MFF_TCP_SRC"
         THEN [rule EXCEPT !.wc.tp_src_mask = Zeros(2), !.flow.tp_src = Zeros(2)]
         ELSE [rule EXCEPT !.wc.tun_id_mask = Zeros(8), !.flow.tun_id = Zeros(8)]
    ELSE IF mask = Ones(Len(mask)) THEN mf_set_value(mf, value, rule)
    ELSE IF mf = "MFF_TCP_SRC"
         THEN [rule EXCEPT !.wc.tp_src_mask = mask, !.flow.tp_src = Masked(value, mask)]
         ELSE [rule EXCEPT !.wc.tun_id_mask = mask, !.flow.tun_id = Masked(value, mask)]

\* the entry of a field, nx_pull_match__ lines 128 to 164; every value and
\* every mask of the fields of the model is valid
nx_pull_field(mf, header, p, acc) ==
    IF ~mf_are_prereqs_ok(mf, acc.rule.flow)
    THEN [acc EXCEPT !.error = "OFPERR_OFPBMC_BAD_PREREQ"]
    ELSE IF ~mf_is_all_wild(mf, acc.rule.wc)
    THEN [acc EXCEPT !.error = "OFPERR_OFPBMC_DUP_FIELD"]
    ELSE IF header # OXM_OF_IN_PORT
    THEN IF ~NXM_HASMASK(header)
         THEN [acc EXCEPT !.rule = mf_set_value(mf, SubSeq(p, 5, 4 + n_bytes(mf)), @)]
         ELSE [acc EXCEPT !.rule = mf_set(mf, SubSeq(p, 5, 4 + n_bytes(mf)),
                                          SubSeq(p, 5 + n_bytes(mf), 4 + 2 * n_bytes(mf)), @)]
    ELSE IF ofputil_port_from_ofp11(SubSeq(p, 5, 8)).error # OK
    THEN [acc EXCEPT !.error = ofputil_port_from_ofp11(SubSeq(p, 5, 8)).error]
    ELSE [acc EXCEPT !.rule = cls_rule_set_in_port(@, ofputil_port_from_ofp11(SubSeq(p, 5, 8)).port)]

\* the entry of the cookie, nx_pull_match__ lines 167 to 181: a duplicate
\* when the mask of the cookie is set already
nx_pull_cookie(header, p, acc) ==
    IF acc.cookie_mask # Zeros(8)
    THEN [acc EXCEPT !.error = "OFPERR_OFPBMC_DUP_FIELD"]
    ELSE [acc EXCEPT !.error = OK,
                     !.cookie = SubSeq(p, 5, 12),
                     !.cookie_mask = IF NXM_HASMASK(header) THEN SubSeq(p, 13, 20)
                                     ELSE Ones(8)]

\* one entry of the loop of nx_pull_match__; skip says that the loose
\* decoder passes over a header it does not know
nx_pull_entry(header, p, strict, want_cookie, acc) ==
    IF mf_from_nxm_header(header) = NULL
    THEN IF ~strict THEN acc
         ELSE IF header \in {NXM_NX_COOKIE, NXM_NX_COOKIE_W} /\ want_cookie
         THEN nx_pull_cookie(header, p, acc)
         ELSE [acc EXCEPT !.error = "OFPERR_OFPBMC_BAD_FIELD"]
    ELSE nx_pull_field(mf_from_nxm_header(header), header, p, acc)

RECURSIVE nx_pull_loop(_, _, _, _, _)
\* the loop of nx_pull_match__, and the length left over at its end
nx_pull_loop(p, match_len, strict, want_cookie, acc) ==
    IF acc.error # OK THEN acc
    ELSE IF nx_entry_ok(p, match_len) = <<>>
    THEN [acc EXCEPT !.error = IF match_len # 0 THEN "OFPERR_OFPBMC_BAD_LEN" ELSE OK]
    ELSE nx_pull_loop(SubSeq(p, 5 + NXM_LENGTH(SubSeq(p, 1, 4)), Len(p)),
                      match_len - (4 + NXM_LENGTH(SubSeq(p, 1, 4))),
                      strict, want_cookie,
                      nx_pull_entry(SubSeq(p, 1, 4), p, strict, want_cookie, acc))

\* nx_pull_match__: [error, b, rule, cookie, cookie_mask], where b is what
\* is left of the buffer
nx_pull_match__(b, match_len, hdr_len, strict, want_cookie) ==
    IF Len(b) < nx_padded_match_len(match_len, hdr_len)
    THEN [error |-> "OFPERR_OFPBMC_BAD_LEN", b |-> b, rule |-> cls_rule_init_catchall,
          cookie |-> Zeros(8), cookie_mask |-> Zeros(8)]
    ELSE nx_pull_loop(SubSeq(b, 1, nx_padded_match_len(match_len, hdr_len)), match_len,
                      strict, want_cookie,
                      [error |-> OK,
                       b |-> SubSeq(b, nx_padded_match_len(match_len, hdr_len) + 1, Len(b)),
                       rule |-> cls_rule_init_catchall,
                       cookie |-> Zeros(8), cookie_mask |-> Zeros(8)])

nx_pull_match(b, match_len, hdr_len, want_cookie) ==
    nx_pull_match__(b, match_len, hdr_len, TRUE, want_cookie)

nx_pull_match_loose(b, match_len, hdr_len, want_cookie) ==
    nx_pull_match__(b, match_len, hdr_len, FALSE, want_cookie)

----------------------------------------------------------------------------
(* The codec at work: a match is encoded, the bytes are decoded, and the    *)
(* decoded match is encoded again; or a controller's nx_match is decoded.   *)

\* a cls_rule in normal form: a wildcarded field or bit is zero in the
\* flow; in_port, dl_type, nw_proto and nw_ttl are <<>> for a wildcarded
\* field and <<value>> for a value, tp_src and tun_id are <<value, mask>>
NxmRule(in_port, dl_type, nw_proto, nw_ttl, tp_src, tun_id) ==
    [flow |-> [in_port |-> IF in_port = <<>> THEN 0 ELSE in_port[1],
               dl_type |-> IF dl_type = <<>> THEN Zeros(2) ELSE dl_type[1],
               nw_proto |-> IF nw_proto = <<>> THEN 0 ELSE nw_proto[1],
               nw_ttl |-> IF nw_ttl = <<>> THEN 0 ELSE nw_ttl[1],
               tp_src |-> Masked(tp_src[1], tp_src[2]),
               tun_id |-> Masked(tun_id[1], tun_id[2])],
     wc |-> [wildcards |-> {f[1] : f \in {g \in {<<"FWW_IN_PORT", in_port>>,
                                                  <<"FWW_DL_TYPE", dl_type>>,
                                                  <<"FWW_NW_PROTO", nw_proto>>,
                                                  <<"FWW_NW_TTL", nw_ttl>>} : g[2] = <<>>}},
             tp_src_mask |-> tp_src[2], tun_id_mask |-> tun_id[2]]]

NxmInPorts == {<<>>, <<1>>}
NxmTtls == {<<>>, <<64>>}
NxmTpSrcs == {<<Zeros(2), Zeros(2)>>, <<htons(80), Ones(2)>>, <<htons(1024), <<255, 0>>>>}
NxmTunIds == {<<Zeros(8), Zeros(8)>>,
              <<<<0, 0, 0, 0, 0, 0, 1, 2>>, Ones(8)>>,
              <<<<0, 0, 0, 0, 0, 0, 1, 2>>, <<0, 0, 0, 0, 0, 0, 255, 0>>>>}

\* the matches that satisfy the prerequisites of their fields: nw_proto and
\* nw_ttl under dl_type IP only, tp_src under nw_proto TCP only
NxmRules ==
    {NxmRule(in_port, <<>>, <<>>, <<>>, <<Zeros(2), Zeros(2)>>, tun_id) :
        in_port \in NxmInPorts, tun_id \in NxmTunIds}
    \cup {NxmRule(in_port, <<ETH_TYPE_ARP>>, <<>>, <<>>, <<Zeros(2), Zeros(2)>>, tun_id) :
        in_port \in NxmInPorts, tun_id \in NxmTunIds}
    \cup {NxmRule(in_port, <<ETH_TYPE_IP>>, <<>>, nw_ttl, <<Zeros(2), Zeros(2)>>, tun_id) :
        in_port \in NxmInPorts, nw_ttl \in NxmTtls, tun_id \in NxmTunIds}
    \cup {NxmRule(<<1>>, <<ETH_TYPE_IP>>, <<IPPROTO_TCP>>, nw_ttl, tp_src, tun_id) :
        nw_ttl \in NxmTtls, tp_src \in NxmTpSrcs, tun_id \in NxmTunIds}

\* a cookie and its mask; the cookie is zero under a mask of zeros
NxmCookies == {<<Zeros(8), Zeros(8)>>,
               <<<<0, 0, 0, 0, 0, 0, 0, 7>>, Ones(8)>>,
               <<<<0, 0, 0, 0, 0, 0, 0, 7>>, <<0, 0, 0, 0, 0, 0, 0, 3>>>>}

\* what follows the match in a message
NxmTails == {<<>>, <<9, 9, 9, 9, 9, 9, 9, 9>>}

\* nx_put_match into an empty buffer
NxPutMatch(oxm, cr, cookie) ==
    /\ last.op = "ofproto_create"
    /\ last' = [op |-> "nx_put_match", oxm |-> oxm, cr |-> cr,
                cookie |-> cookie[1], cookie_mask |-> cookie[2],
                put |-> nx_put_match(<<>>, oxm, cr, cookie[1], cookie[2])]
    /\ UNCHANGED <<flowVars, connVars, inbox, arrivals, sent, portVars, switchVars, runVars>>

\* nx_pull_match of the bytes that nx_put_match produced, in a buffer that
\* goes on after the match
NxPullMatch(tail) ==
    /\ last.op = "nx_put_match"
    /\ last' = [last EXCEPT !.op = "nx_pull_match"] @@
               [tail |-> tail,
                res |-> nx_pull_match(last.put.b \o tail, last.put.match_len,
                                      IF last.oxm THEN sizeof_ofp11_match_header ELSE 0,
                                      TRUE)]
    /\ UNCHANGED <<flowVars, connVars, inbox, arrivals, sent, portVars, switchVars, runVars>>

\* nx_put_match of the match and the cookie that nx_pull_match returned
NxPutAgain ==
    /\ last.op = "nx_pull_match"
    /\ last.res.error = OK
    /\ last' = [last EXCEPT !.op = "nx_put_match_again"] @@
               [again |-> nx_put_match(<<>>, last.oxm, last.res.rule,
                                       last.res.cookie, last.res.cookie_mask)]
    /\ UNCHANGED <<flowVars, connVars, inbox, arrivals, sent, portVars, switchVars, runVars>>

\* the entries a controller puts into an nx_match
NxmEntries ==
    {[header |-> NXM_NX_TUN_ID, payload |-> <<0, 0, 0, 0, 0, 0, 1, 2>>],
     [header |-> NXM_MAKE_WILD_HEADER(NXM_NX_TUN_ID),
      payload |-> <<0, 0, 0, 0, 0, 0, 1, 2>> \o <<0, 0, 0, 0, 0, 0, 255, 0>>],
     [header |-> NXM_MAKE_WILD_HEADER(NXM_NX_TUN_ID),
      payload |-> <<0, 0, 0, 0, 0, 0, 1, 2>> \o Zeros(8)],
     [header |-> NXM_OF_IN_PORT, payload |-> htons(1)],
     [header |-> NXM_OF_IN_PORT, payload |-> htons(2)],
     [header |-> NXM_NX_COOKIE, payload |-> <<0, 0, 0, 0, 0, 0, 0, 7>>],
     [header |-> NXM_NX_COOKIE_W, payload |-> <<0, 0, 0, 0, 0, 0, 0, 7>> \o Zeros(8)],
     [header |-> NXM_NX_COOKIE_W,
      payload |-> <<0, 0, 0, 0, 0, 0, 0, 7>> \o <<0, 0, 0, 0, 0, 0, 0, 3>>]}

MaxEntries == 2     \* entries in a controller's nx_match

RECURSIVE NxmBytes(_, _)
\* the entries from the i-th on, as bytes
NxmBytes(entries, i) ==
    IF i > Len(entries) THEN <<>>
    ELSE entries[i].header \o entries[i].payload \o NxmBytes(entries, i + 1)

\* nx_pull_match or nx_pull_match_loose of a controller's nx_match, padded
\* as in an NXM message
NxPullEntries(entries, strict, want_cookie) ==
    /\ last.op = "ofproto_create"
    /\ last' = [op |-> "nx_pull_match__", entries |-> entries, strict |-> strict,
                want_cookie |-> want_cookie,
                res |-> nx_pull_match__(
                            nx_put_padded(0, FALSE, NxmBytes(entries, 1)).b,
                            Len(NxmBytes(entries, 1)), 0, strict, want_cookie)]
    /\ UNCHANGED <<flowVars, connVars, inbox, arrivals, sent, portVars, switchVars, runVars>>

NextNxm ==
    \/ \E oxm \in BOOLEAN, cr \in NxmRules, cookie \in NxmCookies :
          NxPutMatch(oxm, cr, cookie)
    \/ \E tail \in NxmTails : NxPullMatch(tail)
    \/ NxPutAgain
    \/ \E n \in 1..MaxEntries : \E entries \in [1..n -> NxmEntries] :
       \E strict \in BOOLEAN, want_cookie \in BOOLEAN :
          NxPullEntries(entries, strict, want_cookie)

SpecNxm == InitFlow /\ [][NextNxm]_vars

----------------------------------------------------------------------------
(* Properties of the nx_match codec. *)

\* the match without nw_ttl
WithoutTtl(cr) ==
    [cr EXCEPT !.wc.wildcards = @ \cup {"FWW_NW_TTL"}, !.flow.nw_ttl = 0]

\* what the round trip does return: the encoded match in the NXM dialect,
\* the encoded match without nw_ttl in the OXM dialect, and in both the
\* cookie and its mask, a padded length that is a multiple of 8 bytes
\* counted with the OXM match header, and the same bytes when encoded again
RoundTripWithoutTtl ==
    /\ last.op \in {"nx_pull_match", "nx_put_match_again"}
          => /\ last.res.error = OK
             /\ last.res.b = last.tail
             /\ (Len(last.put.b) + (IF last.oxm THEN sizeof_ofp11_match_header ELSE 0)) % 8 = 0
             /\ Len(last.put.b) - last.put.match_len \in 0..7
             /\ last.res.rule = (IF last.oxm THEN WithoutTtl(last.cr) ELSE last.cr)
             /\ last.res.cookie = last.cookie
             /\ last.res.cookie_mask = last.cookie_mask
    /\ last.op = "nx_put_match_again" => last.again = last.put

\* C25: in both dialects nx_pull_match of the bytes of nx_put_match
\* succeeds, consumes the padded match and nothing more, and returns the
\* match, the cookie and the cookie mask that were encoded; encoding what it
\* returned gives the same bytes.
C25_RoundTrip ==
    /\ last.op \in {"nx_pull_match", "nx_put_match_again"}
          => /\ last.res.error = OK
             /\ last.res.b = last.tail
             /\ last.res.rule = last.cr
             /\ last.res.cookie = last.cookie
             /\ last.res.cookie_mask = last.cookie_mask
    /\ last.op = "nx_put_match_again" => last.again = last.put

\* an OXM match on the in_port, TCP with a masked source port, the time to
\* live, a masked tunnel id and a masked cookie went round: the bytes came
\* back, the time to live did not
C25_Witness ==
    /\ last.op = "nx_put_match_again"
    /\ last.oxm
    /\ "FWW_NW_TTL" \notin last.cr.wc.wildcards
    /\ last.cr.wc.tp_src_mask = <<255, 0>>
    /\ last.cr.wc.tun_id_mask \notin {Zeros(8), Ones(8)}
    /\ last.cookie_mask \notin {Zeros(8), Ones(8)}
    /\ last.tail # <<>>
    /\ last.again = last.put
    /\ Len(last.put.b) > last.put.match_len
    /\ last.res.rule # last.cr
    /\ last.res.rule = WithoutTtl(last.cr)

RECURSIVE Repeats(_, _)
\* the same field, or the cookie, appears twice among the entries: with
\* the same header but for the mask bit
Repeats(entries, i) ==
    /\ i <= Len(entries)
    /\ \/ \E j \in (i + 1)..Len(entries) :
             /\ entries[i].header[1] = entries[j].header[1]
             /\ entries[i].header[2] = entries[j].header[2]
             /\ entries[i].header[3] \div 2 = entries[j].header[3] \div 2
       \/ Repeats(entries, i + 1)

\* C26: the strict and the loose decoder reject with DUP_FIELD every match
\* in which a field or the cookie appears more than once, whatever the
\* values and the masks.
C26_DuplicateRejected ==
    (last.op = "nx_pull_match__" /\ Repeats(last.entries, 1))
        => last.res.error = "OFPERR_OFPBMC_DUP_FIELD"

\* the strict decoder has accepted a tunnel id after a tunnel id under a
\* mask of zeros, and returned the second
C26_Witness ==
    /\ last.op = "nx_pull_match__"
    /\ last.strict
    /\ Len(last.entries) = 2
    /\ last.entries[1].header = NXM_MAKE_WILD_HEADER(NXM_NX_TUN_ID)
    /\ last.entries[1].payload = <<0, 0, 0, 0, 0, 0, 1, 2>> \o Zeros(8)
    /\ last.entries[2].header = NXM_NX_TUN_ID
    /\ last.res.error = OK
    /\ last.res.rule.wc.tun_id_mask = Ones(8)

----------------------------------------------------------------------------
(* SpecSwitch: switches are created and destroyed; the model's own switch   *)
(* has a datapath whose ports come and go and a flow table that internal    *)
(* rules enter and leave; a second switch shares the registry.              *)

SwitchNames == {"br0", "br1"}
SwitchTypes == {"", "bogus"}
SwitchMatches == {<<Wild, Wild>>, <<0, Wild>>}
SwitchDpRecords == {[name |-> "eth0", ofp_port |-> 1], [name |-> "eth1", ofp_port |-> 2]}

InitSwitch ==
    /\ cls = {}
    /\ now = 0
    /\ InitConn
    /\ ports = {}
    /\ port_by_name = {}
    /\ netdevs = {}
    /\ devs = [n \in Names |-> CHOOSE d \in DevStates : d.hw_addr = 1 /\ d.up]
    /\ dp \in SUBSET SwitchDpRecords
    /\ initialized = FALSE
    /\ all_ofprotos = {}
    /\ ofprotos = {}
    /\ InitRun

\* init_ports has a datapath to dump only in the model's own switch
SwitchDump == IF \E o \in ofprotos : o.id = 1 THEN {} ELSE dp

NextSwitch ==
    \/ \E name \in SwitchNames, type \in SwitchTypes :
          \E prov \in {"ok", "alloc_fail", "construct_fail"} :
             \E order \in Orders(SwitchDump) :
                \E env \in PortEnvs({r.name : r \in SwitchDump}) :
                   ofproto_create(name, type, prov, order, env)
    \/ \E p \in ofprotos :
          \E rules \in Orders(IF p.id = 1 THEN cls ELSE {}) :
             \E order \in Orders(IF p.id = 1 THEN ports ELSE {}) :
                \E twice \in HmapRemoveTwice : ofproto_destroy(p, rules, order, twice)
    \/ ofproto_destroy_NULL
    \/ \E name \in Names : \E env \in PortEnvs({name}) : port_poll(name, env)
    \/ \E rec \in SwitchDpRecords : DatapathChanges(rec)
    \/ \E m \in SwitchMatches : \E prov \in {"ok", "alloc_fail", "construct_fail"} :
          ofproto_add_flow(m, 100, <<2>>, prov)
    \/ \E m \in SwitchMatches : ofproto_delete_flow(m, 100)

SpecSwitch == InitSwitch /\ [][NextSwitch]_vars

\* ofproto_lookup: the switches the walk along the name's bucket may return
\* first
ofproto_lookup(name) == {o \in all_ofprotos : o.name = name}

\* C27: the registry holds exactly the switches that are alive, and no two
\* registered switches have the same name
C27_RegistryExact ==
    /\ all_ofprotos = ofprotos
    /\ \A name \in SwitchNames : Cardinality(ofproto_lookup(name)) <= 1

\* two switches are registered under one name
C27_Witness ==
    /\ last.op \in {"ofproto_create", "init_ports"}
    /\ \E a, b \in all_ofprotos : a # b /\ a.name = b.name

\* the part of C27 that the code keeps: registered means alive
RegistryIsAlive == all_ofprotos = ofprotos

\* the stage of ofproto_destroy a call belongs to
DestroyStage(call) ==
    IF call[1] \in {"flush", "rule_remove", "rule_destruct", "rule_dealloc"} THEN 1
    ELSE IF call[1] \in {"port_destruct", "netdev_close", "port_dealloc"} THEN 2
    ELSE IF call[1] = "destruct" THEN 3
    ELSE IF call[1] = "hmap_remove" THEN 4
    ELSE IF call[1] = "dealloc" THEN 5
    ELSE 0

\* the calls of a destruction that ran to its end: every rule, then every
\* port, then destruct, the registry, dealloc
DestroyedInOrder(p, rules, pts, calls) ==
    /\ \A i, j \in 1..Len(calls) : i < j => DestroyStage(calls[i]) <= DestroyStage(calls[j])
    /\ \A i \in 1..Len(calls) : DestroyStage(calls[i]) # 0
    /\ \A r \in rules : \E i \in 1..Len(calls) : calls[i] = Call("rule_destruct", r)
    /\ \A q \in pts : \E i \in 1..Len(calls) : calls[i] = <<"port_destruct", q.id>>
    /\ Len(calls) >= 3
    /\ SubSeq(calls, Len(calls) - 2, Len(calls))
          = <<<<"destruct", p.id>>, <<"hmap_remove", p.id>>, <<"dealloc", p.id>>>>

\* C28: destroying a switch removes every rule, then every port, then calls
\* destruct, and only then unregisters and deallocates the switch, and it
\* always runs to completion
C28_DestroyCompletes ==
    [][last'.op = "ofproto_destroy" /\ last'.arg # NoSwitch
       => /\ ~last'.abort
          /\ DestroyedInOrder(last'.arg,
                              IF last'.arg.id = 1 THEN cls ELSE {},
                              IF last'.arg.id = 1 THEN ports ELSE {},
                              last'.calls)
          /\ last'.arg \notin all_ofprotos'
          /\ last'.arg \notin ofprotos'
          /\ (last'.arg.id = 1 => cls' = {} /\ ports' = {} /\ port_by_name' = {})]_vars

\* a destruction of a switch with a port has stopped in the second
\* hmap_remove of the port
C28_Witness ==
    /\ last.op = "ofproto_destroy"
    /\ last.arg # NoSwitch
    /\ last.abort
    /\ last.arg \in all_ofprotos

----------------------------------------------------------------------------
(* SpecNetdev: every operation on the port table, from ofproto_create to    *)
(* ofproto_destroy, over a datapath whose ports come, go and move.          *)

NextNetdev ==
    \/ /\ ofprotos = {}
       /\ \E order \in Orders(dp) :
             \E env \in PortEnvs({r.name : r \in dp}) :
                ofproto_create("br0", "", "ok", order, env)
    \/ \E name \in Names : \E env \in PortEnvs({name}) : port_poll(name, env)
    \/ \E order \in Orders(reinit_names(PortTable, dp)) :
          \E env \in PortEnvs(reinit_names(PortTable, dp)) :
             port_poll_ENOBUFS(order, env)
    \/ \E name \in Names, q \in PortNos : \E env \in PortEnvs({name}) :
          ofproto_port_add(name, q, env)
    \/ \E q \in PortNos :
          \E env \in PortEnvs({p.name : p \in ofproto_get_port(PortTable, q)}) :
             ofproto_port_del(q, env)
    \/ \E rec \in DpRecords : DatapathChanges(rec)
    \/ \E p \in ofprotos : \E order \in Orders(ports) : \E twice \in HmapRemoveTwice :
          ofproto_destroy(p, <<>>, order, twice)

SpecNetdev == InitPort /\ [][NextNetdev]_vars

\* the descriptors open after the calls from the i-th on, starting from the
\* open ones; not ok when a descriptor is opened while open or closed while
\* not open
RECURSIVE netdev_trace(_, _, _)
netdev_trace(calls, i, open) ==
    IF i > Len(calls)
    THEN [ok |-> TRUE, open |-> open]
    ELSE IF calls[i][1] = "netdev_open"
    THEN IF calls[i][2] \in open
         THEN [ok |-> FALSE, open |-> open]
         ELSE netdev_trace(calls, i + 1, open \cup {calls[i][2]})
    ELSE IF calls[i][1] = "netdev_close"
    THEN IF calls[i][2] \notin open
         THEN [ok |-> FALSE, open |-> open]
         ELSE netdev_trace(calls, i + 1, open \ {calls[i][2]})
    ELSE netdev_trace(calls, i + 1, open)

\* after the traced calls every open descriptor is held by exactly one port
\* of pp, and every port of pp holds an open descriptor
NetdevsAccounted(tr, pp, open) ==
    /\ tr.ok
    /\ tr.open = open
    /\ open = {q.netdev : q \in pp}
    /\ \A q1, q2 \in pp : q1.netdev = q2.netdev => q1 = q2

----------------------------------------------------------------------------
(* SpecCycle: the life cycle of the provider's objects.  The model's own    *)
(* switch and one more are created, with every verdict of the provider, and *)
(* destroyed; ports and internal rules come and go in between.              *)

NextCycle ==
    \/ \E prov \in {"ok", "alloc_fail", "construct_fail"} :
          \E order \in Orders(SwitchDump) :
             \E env \in PortEnvs({r.name : r \in SwitchDump}) :
                ofproto_create("br0", "", prov, order, env)
    \/ \E p \in ofprotos :
          \E rules \in Orders(IF p.id = 1 THEN cls ELSE {}) :
             \E order \in Orders(IF p.id = 1 THEN ports ELSE {}) :
                \E twice \in HmapRemoveTwice : ofproto_destroy(p, rules, order, twice)
    \/ \E name \in Names : \E env \in PortEnvs({name}) : port_poll(name, env)
    \/ \E rec \in SwitchDpRecords : DatapathChanges(rec)
    \/ \E m \in SwitchMatches : \E prov \in {"ok", "alloc_fail", "construct_fail"} :
          ofproto_add_flow(m, 100, <<2>>, prov)
    \/ \E m \in SwitchMatches : ofproto_delete_flow(m, 100)

SpecCycle == InitSwitch /\ [][NextCycle]_vars


ObjectKinds == {"ofproto", "port", "rule"}

\* what a call does to an object of the kind: "alloc", "construct",
\* "destruct", "dealloc", "use" for any other call on the object, "none" for
\* a call that is not about an object of the kind
LifeStage(kind, call) ==
    IF kind = "ofproto"
    THEN IF call[1] \in {"alloc", "construct", "destruct", "dealloc"} THEN call[1]
         ELSE IF call[1] = "flush" THEN "use" ELSE "none"
    ELSE IF kind = "port"
    THEN IF call[1] = "port_alloc" THEN "alloc"
         ELSE IF call[1] = "port_construct" THEN "construct"
         ELSE IF call[1] = "port_destruct" THEN "destruct"
         ELSE IF call[1] = "port_dealloc" THEN "dealloc"
         ELSE IF call[1] = "port_modified" THEN "use" ELSE "none"
    ELSE IF call[1] = "rule_alloc" THEN "alloc"
         ELSE IF call[1] = "rule_construct" THEN "construct"
         ELSE IF call[1] = "rule_destruct" THEN "destruct"
         ELSE IF call[1] = "rule_dealloc" THEN "dealloc"
         ELSE IF call[1] \in {"rule_remove", "rule_execute", "rule_get_stats",
                              "rule_modify_actions"} THEN "use" ELSE "none"

\* the object a call of the kind is about: a switch or a port by its
\* identity, a rule by its match and priority
LifeKey(kind, call) == IF kind = "rule" THEN <<call[2], call[3]>> ELSE call[2]

\* what alloc or construct returned
LifeResult(kind, call) == IF kind = "rule" THEN call[4] ELSE call[3]

\* how many objects of the kind under the key the tables hold
LiveObjects(kind, key, sw, pp, rr) ==
    IF kind = "ofproto" THEN Cardinality({o \in sw : o.id = key})
    ELSE IF kind = "port" THEN Cardinality({q \in pp : q.id = key})
    ELSE Cardinality({r \in rr : <<r.match, r.priority>> = key})

\* the keys of the kind that the calls or the tables name
LifeKeys(kind, calls, sw, pp, rr) ==
    {LifeKey(kind, calls[i]) : i \in {j \in 1..Len(calls) : LifeStage(kind, calls[j]) # "none"}}
    \cup (IF kind = "ofproto" THEN {o.id : o \in sw}
          ELSE IF kind = "port" THEN {q.id : q \in pp}
          ELSE {<<r.match, r.priority>> : r \in rr})

\* the objects under one key as the calls from the i-th on leave them: raw
\* (allocated), failed (construct failed), live (constructed), dead
\* (destructed); not ok when a call comes out of turn
RECURSIVE life_cycle(_, _, _, _, _)
life_cycle(kind, key, calls, i, st) ==
    IF i > Len(calls) \/ ~st.ok
    THEN st
    ELSE IF LifeStage(kind, calls[i]) = "none" \/ LifeKey(kind, calls[i]) # key
    THEN life_cycle(kind, key, calls, i + 1, st)
    ELSE IF LifeStage(kind, calls[i]) = "alloc"
    THEN life_cycle(kind, key, calls, i + 1,
                    IF LifeResult(kind, calls[i]) = OK THEN [st EXCEPT !.raw = @ + 1]
                    ELSE st)
    ELSE IF LifeStage(kind, calls[i]) = "construct"
    THEN life_cycle(kind, key, calls, i + 1,
                    IF st.raw = 0 THEN [st EXCEPT !.ok = FALSE]
                    ELSE IF LifeResult(kind, calls[i]) = OK
                    THEN [st EXCEPT !.raw = @ - 1, !.live = @ + 1]
                    ELSE [st EXCEPT !.raw = @ - 1, !.failed = @ + 1])
    ELSE IF LifeStage(kind, calls[i]) = "destruct"
    THEN life_cycle(kind, key, calls, i + 1,
                    IF st.live = 0 THEN [st EXCEPT !.ok = FALSE]
                    ELSE [st EXCEPT !.live = @ - 1, !.dead = @ + 1])
    ELSE IF LifeStage(kind, calls[i]) = "dealloc"
    THEN life_cycle(kind, key, calls, i + 1,
                    IF st.failed > 0 THEN [st EXCEPT !.failed = @ - 1]
                    ELSE IF st.dead > 0 THEN [st EXCEPT !.dead = @ - 1]
                    ELSE [st EXCEPT !.ok = FALSE])
    ELSE life_cycle(kind, key, calls, i + 1,
                    IF st.live = 0 THEN [st EXCEPT !.ok = FALSE] ELSE st)

\* every call came in turn, nothing is left allocated but not constructed or
\* destructed but not deallocated, and the constructed objects are the ones
\* the tables hold
LifeCycleKept(st, live) ==
    st.ok /\ st.raw = 0 /\ st.failed = 0 /\ st.dead = 0 /\ st.live = live /\ live <= 1

\* the step has returned
Returned(l) == ~("abort" \in DOMAIN l /\ l.abort)

----------------------------------------------------------------------------
(* SpecPortMod: PORT_MOD requests for ports the table holds, for ports it   *)
(* does not hold and for reserved numbers, with the right and the wrong     *)
(* hardware address, from connections of every role.                        *)

OFPP_LOCAL == 65534
OFPP_IN_PORT == 65528

PortModNumbers == {1, 3, OFPP_MAX, OFPP_IN_PORT, OFPP_LOCAL, OFPP_NONE}

PortMods ==
    {[port_no |-> q, hw_addr |-> a, config |-> cm[1], mask |-> cm[2], advertise |-> 0] :
        q \in PortModNumbers, a \in {1, 2},
        cm \in {<<{"OFPPC_NO_FLOOD"}, {"OFPPC_NO_FLOOD"}>>,
                <<{"OFPPC_PORT_DOWN"}, {"OFPPC_PORT_DOWN"}>>,
                <<{}, {"OFPPC_NO_FLOOD", "OFPPC_PORT_DOWN"}>>}}

\* the switch over a datapath with the port eth0 and the local port eth1
InitPortMod ==
    /\ cls = {}
    /\ now = 0
    /\ InitConn
    /\ all_ofprotos = {Br0}
    /\ ofprotos = {Br0}
    /\ InitRun
    /\ devs = [n \in Names |-> CHOOSE d \in DevStates :
                                  d.up /\ d.hw_addr = (IF n = "eth0" THEN 1 ELSE 2)]
    /\ dp = {[name |-> "eth0", ofp_port |-> 1], [name |-> "eth1", ofp_port |-> OFPP_LOCAL]}
    /\ ports = {[id |-> 1, name |-> "eth0", netdev |-> 1, ofp_port |-> 1,
                 opp |-> PhyPort([name |-> "eth0", ofp_port |-> 1], devs["eth0"])],
                [id |-> 2, name |-> "eth1", netdev |-> 2, ofp_port |-> OFPP_LOCAL,
                 opp |-> PhyPort([name |-> "eth1", ofp_port |-> OFPP_LOCAL],
                                 devs["eth1"])]}
    /\ port_by_name = {<<"eth0", 1>>, <<"eth1", 2>>}
    /\ netdevs = {1, 2}
    /\ initialized = TRUE

NextPortMod ==
    \/ \E c \in Conns : \E b \in PortMods : Receive(c, Msg("PORT_MOD", 1, b), NoEnv)
    \/ \E c \in Conns : \E b \in DispRoleRequests :
          Receive(c, Msg("ROLE_REQUEST", 1, b), NoEnv)

SpecPortMod == InitPortMod /\ [][NextPortMod]_vars

\* a reserved port number: OFPP_MAX and above, but for LOCAL and NONE
IsReservedPort(q) == q >= OFPP_MAX /\ q \notin {OFPP_LOCAL, OFPP_NONE}

\* the step has answered its message with this one error and has left every
\* port and every device as it was
PortModRefused(err) ==
    /\ last'.err = err
    /\ sent'[last'.conn] = <<[type |-> "ERROR", xid |-> last'.msg.xid,
                              error |-> err, request |-> "PORT_MOD"]>>
    /\ ports' = ports
    /\ devs' = devs

C31_WitnessHwAddr ==
    /\ Handles(last, {"PORT_MOD"})
    /\ last.msg.body.port_no = 1
    /\ last.msg.body.hw_addr = 2
    /\ last.err = "OFPPMFC_BAD_HW_ADDR"

-----------------------------------------------------------------------------
(* SpecErr: the wire encoding of OpenFlow errors in each protocol version,  *)
(* as tests/ofp-errors.at pins it down.                                     *)

ErrVersions == {1, 2, 3}       \* OpenFlow 1.0, 1.1 and 1.2 in the header's version byte

NXET_VENDOR == 45250           \* 0xb0c2, the error type of a vendor error
NXVC_VENDOR_ERROR == 0         \* its code
NX_VENDOR_ID == 8992           \* 0x00002320

ErrNames == {"OFPHFC_EPERM", "OFPBRC_BAD_LEN", "OFPBMC_BAD_PREREQ", "OFPFMFC_OVERLAP",
             "OFPBIC_UNSUP_INST", "OFPBIC_BAD_EXPERIMENTER", "OFPBIC_BAD_EXP_TYPE"}

\* the encodings of a version: <<error, vendor, type, code>>, vendor 0 for a
\* standard error
ofperr_encodings(version) ==
    CASE version = 1 ->
            {<<"OFPHFC_EPERM", 0, 0, 1>>, <<"OFPBRC_BAD_LEN", 0, 1, 6>>,
             <<"OFPBMC_BAD_PREREQ", NX_VENDOR_ID, 1, 260>>,
             <<"OFPFMFC_OVERLAP", 0, 3, 1>>}
      [] version = 2 ->
            {<<"OFPHFC_EPERM", 0, 0, 1>>,
             <<"OFPBMC_BAD_PREREQ", NX_VENDOR_ID, 1, 260>>,
             <<"OFPBIC_UNSUP_INST", 0, 3, 1>>,
             <<"OFPBIC_BAD_EXPERIMENTER", 0, 3, 5>>,
             <<"OFPBIC_BAD_EXP_TYPE", 0, 3, 5>>}
      [] version = 3 ->
            {<<"OFPBIC_BAD_EXPERIMENTER", 0, 3, 5>>,
             <<"OFPBIC_BAD_EXP_TYPE", 0, 3, 6>>}
      [] OTHER -> {}

\* <<vendor, type, code>> of the error in the version, <<>> where print-error
\* shows -1,-1
ofperr_get_pair(version, error) ==
    LET es == {e \in ofperr_encodings(version) : e[1] = error}
    IN IF es = {} THEN <<>>
       ELSE LET e == CHOOSE e \in es : TRUE IN <<e[2], e[3], e[4]>>

\* the reverse table of a version: <<vendor, type, code, error>>
ofperr_domain(version) ==
    CASE version = 1 ->
            {<<0, 0, 1, "OFPHFC_EPERM">>, <<0, 1, 6, "OFPBRC_BAD_LEN">>,
             <<NX_VENDOR_ID, 1, 260, "OFPBMC_BAD_PREREQ">>,
             <<0, 3, 1, "OFPFMFC_OVERLAP">>}
      [] version = 2 ->
            {<<0, 0, 1, "OFPHFC_EPERM">>,
             <<NX_VENDOR_ID, 1, 260, "OFPBMC_BAD_PREREQ">>,
             <<0, 3, 1, "OFPBIC_UNSUP_INST">>,
             <<0, 3, 5, "OFPBIC_BAD_EXPERIMENTER">>}
      [] version = 3 ->
            {<<0, 3, 5, "OFPBIC_BAD_EXPERIMENTER">>,
             <<0, 3, 6, "OFPBIC_BAD_EXP_TYPE">>}
      [] OTHER -> {}

\* ofperr_decode that looks the code up in the OpenFlow 1.2 table whatever the
\* version
ofperr_decode_of12(version, vendor, type, code) ==
    LET es == {e \in ofperr_domain(3) : e[1] = vendor /\ e[2] = type /\ e[3] = code}
    IN IF es = {} THEN "" ELSE (CHOOSE e \in es : TRUE)[4]

\* the error that (vendor, type, code) names in the version, "" if none
ofperr_decode(version, vendor, type, code) ==
    LET es == {e \in ofperr_domain(version) :
                  e[1] = vendor /\ e[2] = type /\ e[3] = code}
    IN IF es = {} THEN "" ELSE (CHOOSE e \in es : TRUE)[4]

\* the fields after the header of the OFPT_ERROR message that carries the
\* error: type and code, and for a vendor error the vendor's id, type and code
ofperr_encode_msg(version, error) ==
    LET pair == ofperr_get_pair(version, error)
    IN IF pair[1] = 0 THEN <<pair[2], pair[3]>>
       ELSE <<NXET_VENDOR, NXVC_VENDOR_ERROR, pair[1], pair[2], pair[3]>>

\* the error of an OFPT_ERROR message
ofperr_decode_msg(version, fields) ==
    IF fields[1] = NXET_VENDOR
    THEN IF fields[2] = NXVC_VENDOR_ERROR /\ Len(fields) >= 5
         THEN ofperr_decode(version, fields[3], fields[4], fields[5])
         ELSE ""
    ELSE ofperr_decode(version, 0, fields[1], fields[2])

\* what ofp-print shows of an OFPT_ERROR message
ofp_print_error_msg(version, fields) ==
    LET error == ofperr_decode_msg(version, fields)
    IN IF error = "" THEN "***decode error***" ELSE error

\* ovs-ofctl print-error: the encoding of the error in every version
ErrPrintError(error) ==
    /\ last.op = "ofproto_create"
    /\ last' = [op |-> "print-error", error |-> error,
                pairs |-> [v \in ErrVersions |-> ofperr_get_pair(v, error)]]
    /\ UNCHANGED <<flowVars, connVars, inbox, arrivals, sent, portVars, switchVars, runVars>>

\* an error is put into an OFPT_ERROR message of the version
ErrEncode(version, error) ==
    /\ last.op = "ofproto_create"
    /\ ofperr_get_pair(version, error) # <<>>
    /\ last' = [op |-> "ofperr_encode_msg", version |-> version, error |-> error,
                fields |-> ofperr_encode_msg(version, error)]
    /\ UNCHANGED <<flowVars, connVars, inbox, arrivals, sent, portVars, switchVars, runVars>>

\* the message is decoded by its receiver
ErrDecode ==
    /\ last.op = "ofperr_encode_msg"
    /\ last' = [last EXCEPT !.op = "ofperr_decode_msg"] @@
               [decoded |-> ofperr_decode_msg(last.version, last.fields)]
    /\ UNCHANGED <<flowVars, connVars, inbox, arrivals, sent, portVars, switchVars, runVars>>

\* ovs-ofctl ofp-print of an OFPT_ERROR message from the wire
ErrPrint(version, fields) ==
    /\ last.op = "ofproto_create"
    /\ last' = [op |-> "ofp_print_error_msg", version |-> version, fields |-> fields,
                out |-> ofp_print_error_msg(version, fields)]
    /\ UNCHANGED <<flowVars, connVars, inbox, arrivals, sent, portVars, switchVars, runVars>>

ErrTypes == {0, 1, 3, 5}
ErrCodes == {0, 1, 5, 6, 260}

\* the fields of the OFPT_ERROR messages a peer sends
ErrFields ==
    {<<t, c>> : t \in ErrTypes, c \in ErrCodes}
    \cup {<<NXET_VENDOR, c>> : c \in {0, 1}}
    \cup {<<NXET_VENDOR, vc, v, t, c>> :
             vc \in {0, 1}, v \in {NX_VENDOR_ID, 1}, t \in {1, 3}, c \in {6, 260}}

NextErr ==
    \/ \E error \in ErrNames : ErrPrintError(error)
    \/ \E version \in ErrVersions, error \in ErrNames : ErrEncode(version, error)
    \/ ErrDecode
    \/ \E version \in ErrVersions, fields \in ErrFields : ErrPrint(version, fields)

SpecErr == InitFlow /\ [][NextErr]_vars

\* C32: an error that has an encoding in a version decodes, under that
\* version, from the message that carries it to the same error, but for
\* OFPBIC_BAD_EXP_TYPE in OpenFlow 1.1, which shares (3,5) with
\* OFPBIC_BAD_EXPERIMENTER and decodes as that; type 3 code 1 is shown as
\* OFPFMFC_OVERLAP in an OpenFlow 1.0 message and as OFPBIC_UNSUP_INST in an
\* OpenFlow 1.1 message
C32_ErrorRoundTrip ==
    /\ last.op = "ofperr_decode_msg"
       => last.decoded = (IF last.version = 2 /\ last.error = "OFPBIC_BAD_EXP_TYPE"
                          THEN "OFPBIC_BAD_EXPERIMENTER"
                          ELSE last.error)
    /\ last.op = "print-error" /\ last.error = "OFPBIC_BAD_EXP_TYPE"
       => last.pairs[2] = <<0, 3, 5>>
          /\ last.pairs[2] = ofperr_get_pair(2, "OFPBIC_BAD_EXPERIMENTER")
    /\ last.op = "ofp_print_error_msg" /\ last.fields = <<3, 1>>
       => /\ last.version = 1 => last.out = "OFPFMFC_OVERLAP"
          /\ last.version = 2 => last.out = "OFPBIC_UNSUP_INST"

\* OFPBIC_BAD_EXP_TYPE has gone through an OpenFlow 1.1 message and has come
\* out as OFPBIC_BAD_EXPERIMENTER
C32_Witness ==
    /\ last.op = "ofperr_decode_msg"
    /\ last.version = 2
    /\ last.error = "OFPBIC_BAD_EXP_TYPE"
    /\ last.fields = <<3, 5>>
    /\ last.decoded = "OFPBIC_BAD_EXPERIMENTER"

\* a vendor error has gone through an OpenFlow 1.0 message
C32_WitnessVendor ==
    /\ last.op = "ofperr_decode_msg"
    /\ last.version = 1
    /\ last.fields[1] = NXET_VENDOR
    /\ last.decoded = "OFPBMC_BAD_PREREQ"

-----------------------------------------------------------------------------
(* SpecModify: ADD, MODIFY and MODIFY_STRICT with and without a buffered    *)
(* packet, the MODIFYs with other timeouts and flags than the ADDs, and     *)
(* the clock.                                                               *)

ModifyMods ==
    {FlowMod("OFPFC_ADD", m, 100, PlainProfile, flags, buf, OFPP_NONE) :
        m \in LifeMatches, flags \in {{}, {"CHECK_OVERLAP"}},
        buf \in {"NONE", "VALID", "STALE"}}
    \cup
    {FlowMod(cmd, m, 100, TimedProfile, {"SEND_FLOW_REM"}, buf, OFPP_NONE) :
        cmd \in {"OFPFC_MODIFY", "OFPFC_MODIFY_STRICT"},
        m \in LifeMatches, buf \in {"NONE", "VALID", "STALE"}}

NextModify ==
    \/ \E fm \in ModifyMods : \E env \in FlowEnvs(fm) : Receive(1, FlowModMsg(fm), env)
    \/ Tick

SpecModify == InitFlow /\ [][NextModify]_vars

\* the step has handled an ADD, a MODIFY or a MODIFY_STRICT
IsInstallingFlowMod(l) ==
    \/ IsFlowMod(l, "OFPFC_ADD")
    \/ IsFlowMod(l, "OFPFC_MODIFY")
    \/ IsFlowMod(l, "OFPFC_MODIFY_STRICT")

\* C33: when an ADD, a MODIFY or a MODIFY_STRICT, with or without a buffered
\* packet, is answered with an error, the flow table is as it was before the
\* message
C33_ErrorLeavesTable ==
    [][(IsInstallingFlowMod(last') /\ ErrorsSent(sent', last'.conn) # <<>>)
       => cls' = cls]_vars

\* an ADD that names a buffer the connection no longer holds has been
\* answered with OFPBRC_BUFFER_UNKNOWN and has added its rule to the empty
\* table
C33_Witness ==
    /\ IsFlowMod(last, "OFPFC_ADD")
    /\ last.msg.body.buffer_id = "STALE"
    /\ last.err = "OFPBRC_BUFFER_UNKNOWN"
    /\ ErrorsSent(sent, last.conn) # <<>>
    /\ last.n_flows = 0
    /\ Cardinality(cls) = 1

\* a MODIFY_STRICT that names such a buffer has been answered with the error
\* and has given the rule its actions and its cookie
C33_WitnessStrict ==
    /\ IsFlowMod(last, "OFPFC_MODIFY_STRICT")
    /\ last.msg.body.buffer_id = "STALE"
    /\ last.err = "OFPBRC_BUFFER_UNKNOWN"
    /\ last.n_flows = 1
    /\ Len(last.calls) = 1
    /\ \A r \in cls : r.actions = last.msg.body.actions

\* a MODIFY of two rules has been answered with the provider's error for one
\* of them and has changed the other
C33_WitnessLoose ==
    /\ IsFlowMod(last, "OFPFC_MODIFY")
    /\ last.err = "OFPBAC_BAD_ARGUMENT"
    /\ last.n_flows = 2
    /\ Len(last.calls) = 2
    /\ \E r \in cls : r.actions = last.msg.body.actions
    /\ \E r \in cls : r.actions # last.msg.body.actions

-----------------------------------------------------------------------------
(* SpecUpdate: update_port on ports that PORT_MODs have configured, over    *)
(* devices that change and a datapath that moves and drops a port.          *)

UpdateMods ==
    {[port_no |-> 1, hw_addr |-> a, config |-> cm[1], mask |-> cm[2], advertise |-> 0] :
        a \in {1, 2},
        cm \in {<<{"OFPPC_NO_FLOOD"}, {"OFPPC_NO_FLOOD"}>>,
                <<{"OFPPC_PORT_DOWN"}, {"OFPPC_PORT_DOWN"}>>,
                <<{}, {"OFPPC_NO_FLOOD", "OFPPC_PORT_DOWN"}>>}}

NextUpdate ==
    \/ \E b \in UpdateMods : Receive(1, Msg("PORT_MOD", 1, b), NoEnv)
    \/ \E d \in DevStates : DeviceChanges("eth0", d)
    \/ \E name \in Names : \E env \in PortEnvs({name}) : port_poll(name, env)
    \/ \E q \in PortNos : DatapathChanges([name |-> "eth0", ofp_port |-> q])

SpecUpdate == InitPortMod /\ [][NextUpdate]_vars

\* the port of this name, if the datapath still reports the name under the
\* port's number
PortInPlace(name) ==
    {q \in ports : q.name = name /\ [name |-> name, ofp_port |-> q.ofp_port] \in dp}

\* the fresh report differs from the port's description in the address, the
\* state, a feature bitmap or the PORT_DOWN bit
ReportDiffers(opp, fresh) ==
    \/ opp.hw_addr # fresh.hw_addr
    \/ opp.state # fresh.state
    \/ opp.curr # fresh.curr
    \/ opp.advertised # fresh.advertised
    \/ opp.supported # fresh.supported
    \/ opp.peer # fresh.peer
    \/ ("OFPPC_PORT_DOWN" \in opp.config) # ("OFPPC_PORT_DOWN" \in fresh.config)

\* the environment in which the device opens and the provider accepts
OpenEnv == [pref |-> 1, openfail |-> {}, allocfail |-> {}, constructfail |-> {}]

\* the ports but for their netdev handles
PortRecords(ps) == {[q EXCEPT !.netdev = 0] : q \in ps}

C34_WitnessQuiet ==
    /\ last.op = "update_port"
    /\ last.arg = "eth0"
    /\ \E i \in 1..Len(last.calls) : last.calls[i][1] = "port_modified"
    /\ \A k \in Conns : sent[k] = <<>>
    /\ \E q \in PortInPlace("eth0") : "OFPPC_NO_FLOOD" \in q.opp.config

\* the visible rules that a MODIFY or a MODIFY_STRICT applies to
ModifyTargets(c, fm) ==
    IF fm.command = "OFPFC_MODIFY"
    THEN {r \in cls_cursor(c, fm.match) : ~rule_is_hidden(r)}
    ELSE {r \in find_flow_strict(c, fm) : ~rule_is_hidden(r)}

\* the rules differ at most in the action list and the cookie
SameButActions(r, r2) ==
    r2 = [r EXCEPT !.actions = r2.actions, !.flow_cookie = r2.flow_cookie]

\* the rule with one more packet to its credit
Credited(r) == CHOOSE r2 \in rule_execute({r}, r) : TRUE

\* C35: (as stated) a MODIFY or a MODIFY_STRICT leaves every rule it applies
\* to with its match, priority, creation time, timeouts, send_flow_removed
\* flag and counters
C35_AsStated ==
    [][(IsFlowMod(last', "OFPFC_MODIFY") \/ IsFlowMod(last', "OFPFC_MODIFY_STRICT"))
       => \A r \in ModifyTargets(cls, last'.msg.body) :
             \E r2 \in cls' : SameButActions(r, r2)]_vars

\* C35: a MODIFY or a MODIFY_STRICT leaves every rule it applies to with its
\* match, priority, creation time, timeouts and send_flow_removed flag,
\* whatever timeouts and flags the request carries, and creates and removes no
\* rule; the counters are as before too, but when the request carries a
\* buffered packet, which is credited to one of the rules; the actions and
\* the cookie are the rule's own or the request's
C35_ModifyKeepsRest ==
    [][(/\ IsFlowMod(last', "OFPFC_MODIFY") \/ IsFlowMod(last', "OFPFC_MODIFY_STRICT")
        /\ ModifyTargets(cls, last'.msg.body) # {})
       => LET fm == last'.msg.body
              targets == ModifyTargets(cls, fm)
          IN /\ Keys(cls') = Keys(cls)
             /\ \A r \in cls \ targets : r \in cls'
             /\ \A r \in targets :
                   \E r2 \in cls' :
                      /\ SameButActions(r, r2) \/ SameButActions(Credited(r), r2)
                      /\ r2.actions \in {r.actions, fm.actions}
                      /\ r2.flow_cookie \in {r.flow_cookie, fm.cookie}
             /\ fm.buffer_id # "VALID"
                => \A r \in targets : \E r2 \in cls' : SameButActions(r, r2)
             /\ Cardinality({r \in targets : \A r2 \in cls' : ~SameButActions(r, r2)})
                   <= 1]_vars

\* a MODIFY_STRICT with a hard timeout and SEND_FLOW_REM has given its
\* actions and its cookie to a rule made a second earlier without them, which
\* has a packet to its credit and keeps its timeouts, its flag, its creation
\* time and its counters
C35_Witness ==
    /\ IsFlowMod(last, "OFPFC_MODIFY_STRICT")
    /\ last.err = OK
    /\ last.msg.body.buffer_id = "NONE"
    /\ last.msg.body.hard_timeout = 1
    /\ "SEND_FLOW_REM" \in last.msg.body.flags
    /\ now = 1000
    /\ \E r \in cls :
          /\ r.match = last.msg.body.match
          /\ r.created = 0
          /\ r.actions = last.msg.body.actions
          /\ r.flow_cookie = last.msg.body.cookie
          /\ r.hard_timeout = 0
          /\ ~r.send_flow_removed
          /\ r.packet_count = 1

\* a MODIFY that carries a buffered packet has credited it to a rule
C35_WitnessBuffered ==
    /\ IsFlowMod(last, "OFPFC_MODIFY")
    /\ last.err = OK
    /\ last.msg.body.buffer_id = "VALID"
    /\ last.n_flows = 1
    /\ \E r \in cls : r.hard_timeout = 0 /\ r.packet_count = 1
                      /\ r.actions = last.msg.body.actions

-----------------------------------------------------------------------------
(* The unlinking of ports when a switch is destroyed. *)

\* how often the step has removed port id from the index
Unlinks(l, index, id) ==
    Cardinality({i \in 1..Len(l.unlinks) :
                    l.unlinks[i][1] = index /\ l.unlinks[i][2] = id})

\* C36: ofproto_destroy removes each port once from the hmap of the ports by
\* number and once from the shash of the ports by name, and removes no port
\* from an index that does not hold it
C36_UnlinkedOnce ==
    [][(last'.op = "ofproto_destroy" /\ last'.arg.id = 1)
       => /\ \A q \in ports : last'.abort \/ Unlinks(last', "ports", q.id) = 1
          /\ \A q \in ports : last'.abort \/ Unlinks(last', "port_by_name", q.id) = 1
          /\ \A i \in 1..Len(last'.unlinks) : last'.unlinks[i][3]]_vars

\* ofproto_destroy has returned after it removed a port from the hmap of the
\* ports a second time
C36_Witness ==
    /\ last.op = "ofproto_destroy"
    /\ last.arg.id = 1
    /\ ~last.abort
    /\ Unlinks(last, "ports", 1) = 2
    /\ Unlinks(last, "port_by_name", 1) = 1
    /\ \E i \in 1..Len(last.unlinks) : last.unlinks[i] = <<"ports", 1, FALSE>>
    /\ ports = {}

-----------------------------------------------------------------------------
(* SpecLoose: nx_pull_match and nx_pull_match_loose on the same nx_match.   *)

\* an entry whose header names no field
NxmUnknownEntry == [header |-> NXM_HEADER(1, 120, 2), payload |-> <<0, 1>>]

LooseEntries == NxmEntries \cup {NxmUnknownEntry}

\* both decoders are given the controller's nx_match, padded as in an NXM
\* message
NxPullBoth(entries, want_cookie) ==
    /\ last.op = "ofproto_create"
    /\ last' = [op |-> "nx_pull_both", entries |-> entries, want_cookie |-> want_cookie,
                strict |-> nx_pull_match(
                               nx_put_padded(0, FALSE, NxmBytes(entries, 1)).b,
                               Len(NxmBytes(entries, 1)), 0, want_cookie),
                loose |-> nx_pull_match_loose(
                              nx_put_padded(0, FALSE, NxmBytes(entries, 1)).b,
                              Len(NxmBytes(entries, 1)), 0, want_cookie)]
    /\ UNCHANGED <<flowVars, connVars, inbox, arrivals, sent, portVars, switchVars, runVars>>

NextLoose ==
    \E n \in 1..MaxEntries : \E entries \in [1..n -> LooseEntries] :
    \E want_cookie \in BOOLEAN :
       NxPullBoth(entries, want_cookie)

SpecLoose == InitFlow /\ [][NextLoose]_vars

\* the header is unknown to the decoder: it names no field, and it is not a
\* cookie header handed to a caller that asks for the cookie
IsUnknownHeader(header, want_cookie) ==
    /\ mf_from_nxm_header(header) = NULL
    /\ ~(header \in {NXM_NX_COOKIE, NXM_NX_COOKIE_W} /\ want_cookie)

\* the entries with a known header, in their order
KnownEntries(entries, want_cookie) ==
    SelectSeq(entries, LAMBDA e : ~IsUnknownHeader(e.header, want_cookie))

\* the two results agree in the error, the match, the cookie and its mask
SamePull(a, b) ==
    /\ a.error = b.error
    /\ a.error = OK => /\ a.rule = b.rule
                       /\ a.cookie = b.cookie
                       /\ a.cookie_mask = b.cookie_mask

\* C37: on an nx_match without unknown headers nx_pull_match_loose returns
\* what nx_pull_match returns: the same error or success, match, cookie and
\* cookie mask; on an nx_match with unknown headers it returns what
\* nx_pull_match returns for the nx_match without those entries
C37_LooseAsStrict ==
    last.op = "nx_pull_both"
    => /\ (\A i \in 1..Len(last.entries) :
              ~IsUnknownHeader(last.entries[i].header, last.want_cookie))
          => SamePull(last.loose, last.strict)
       /\ SamePull(last.loose,
                   nx_pull_match(
                       nx_put_padded(0, FALSE,
                           NxmBytes(KnownEntries(last.entries, last.want_cookie), 1)).b,
                       Len(NxmBytes(KnownEntries(last.entries, last.want_cookie), 1)),
                       0, last.want_cookie))

\* the two decoders have been given a cookie entry by a caller that asks for
\* the cookie: nx_pull_match has returned it, nx_pull_match_loose has not
C37_Witness ==
    /\ last.op = "nx_pull_both"
    /\ last.want_cookie
    /\ Len(last.entries) = 1
    /\ last.entries[1].header = NXM_NX_COOKIE
    /\ last.strict.error = OK
    /\ last.loose.error = OK
    /\ last.strict.cookie = <<0, 0, 0, 0, 0, 0, 0, 7>>
    /\ last.strict.cookie_mask = Ones(8)
    /\ last.loose.cookie = Zeros(8)
    /\ last.loose.cookie_mask = Zeros(8)

\* an unknown entry before a field: nx_pull_match has failed with BAD_FIELD,
\* nx_pull_match_loose has decoded the field
C37_WitnessSkip ==
    /\ last.op = "nx_pull_both"
    /\ Len(last.entries) = 2
    /\ last.entries[1] = NxmUnknownEntry
    /\ last.entries[2].header = NXM_OF_IN_PORT
    /\ last.strict.error = "OFPERR_OFPBMC_BAD_FIELD"
    /\ last.loose.error = OK
    /\ "FWW_IN_PORT" \notin last.loose.rule.wc.wildcards

-----------------------------------------------------------------------------
(* SpecMpls: the MPLS label stack of lib/mpls.h.  A label stack entry is    *)
(* its label, its bottom-of-stack bit and its TTL; the operations of mpls.h *)
(* touch the entry only through MPLS_STACK_MASK.                            *)

MPLS_LSE_MAX == 16
MaxDepth == 3          \* the deepest stack the pushes build

\* htonl(0)
MplsZero == [label |-> 0, s |-> 0, ttl |-> 0]

\* lse & htonl(MPLS_STACK_MASK)
MplsStackBit(lse) == [label |-> 0, s |-> lse.s, ttl |-> 0]

\* mpls_lses_init
mpls_lses_init == [n_lses |-> 0, lses |-> [i \in 1..MPLS_LSE_MAX |-> MplsZero]]

\* memmove(mpls->lses, mpls->lses + 1, sizeof(mpls->lses[0]) * n)
MplsMoveUp(lses, n) ==
    [i \in 1..MPLS_LSE_MAX |-> IF i <= n THEN lses[i + 1] ELSE lses[i]]

\* memmove(mpls->lses + 1, mpls->lses, sizeof(mpls->lses[0]) * n)
MplsMoveDown(lses, n) ==
    [i \in 1..MPLS_LSE_MAX |-> IF 2 <= i /\ i <= n + 1 THEN lses[i - 1] ELSE lses[i]]

\* mpls_lses_pop
mpls_lses_pop(mpls) ==
    IF mpls.n_lses = 0
    THEN mpls
    ELSE [n_lses |-> mpls.n_lses - 1,
          lses |-> [MplsMoveUp(mpls.lses, mpls.n_lses - 1)
                       EXCEPT ![mpls.n_lses] = MplsZero]]

\* the assertions of mpls_lses_push hold
mpls_lses_push_asserts(mpls, lse) ==
    /\ mpls.n_lses < MPLS_LSE_MAX
    /\ mpls.n_lses = 0 => lse.s = 1
    /\ mpls.n_lses > 0 => lse.s = 0

\* mpls_lses_push, its assertions granted
mpls_lses_push(mpls, lse) ==
    IF mpls.n_lses = 0
    THEN [mpls EXCEPT !.n_lses = 1]
    ELSE [n_lses |-> mpls.n_lses + 1,
          lses |-> [MplsMoveDown(mpls.lses, mpls.n_lses)
                       EXCEPT ![1] = MplsStackBit(mpls.lses[1])]]

\* the assertions of mpls_lses_set hold
mpls_lses_set_asserts(mpls, lse) ==
    /\ mpls.n_lses = 1 => lse.s = 1
    /\ mpls.n_lses > 1 => lse.s = 0

\* mpls_lses_set, its assertions granted
mpls_lses_set(mpls, lse) ==
    IF mpls.n_lses = 0 THEN mpls ELSE [mpls EXCEPT !.lses[1] = lse]

MplsLses == [label : {1, 2}, s : {0, 1}, ttl : {64}]

\* the stack that the step has left
HasMpls == "mpls" \in DOMAIN last /\ ~last.abort

MplsInit ==
    /\ last.op = "ofproto_create"
    /\ last' = [op |-> "mpls_lses_init", mpls |-> mpls_lses_init, abort |-> FALSE]
    /\ UNCHANGED <<flowVars, connVars, inbox, arrivals, sent, portVars, switchVars, runVars>>

MplsPush(lse) ==
    /\ HasMpls
    /\ last.mpls.n_lses < MaxDepth
    /\ last' = [op |-> "mpls_lses_push", lse |-> lse, prev |-> last.mpls,
                mpls |-> IF mpls_lses_push_asserts(last.mpls, lse)
                         THEN mpls_lses_push(last.mpls, lse)
                         ELSE last.mpls,
                abort |-> ~mpls_lses_push_asserts(last.mpls, lse)]
    /\ UNCHANGED <<flowVars, connVars, inbox, arrivals, sent, portVars, switchVars, runVars>>

MplsPop ==
    /\ HasMpls
    /\ last' = [op |-> "mpls_lses_pop", prev |-> last.mpls,
                mpls |-> mpls_lses_pop(last.mpls), abort |-> FALSE]
    /\ UNCHANGED <<flowVars, connVars, inbox, arrivals, sent, portVars, switchVars, runVars>>

MplsSet(lse) ==
    /\ HasMpls
    /\ last' = [op |-> "mpls_lses_set", lse |-> lse, prev |-> last.mpls,
                mpls |-> IF mpls_lses_set_asserts(last.mpls, lse)
                         THEN mpls_lses_set(last.mpls, lse)
                         ELSE last.mpls,
                abort |-> ~mpls_lses_set_asserts(last.mpls, lse)]
    /\ UNCHANGED <<flowVars, connVars, inbox, arrivals, sent, portVars, switchVars, runVars>>

NextMpls ==
    \/ MplsInit
    \/ \E lse \in MplsLses : MplsPush(lse)
    \/ MplsPop
    \/ \E lse \in MplsLses : MplsSet(lse)

SpecMpls == InitFlow /\ [][NextMpls]_vars

\* C38: mpls_lses_push(lse) on a stack of fewer than MPLS_LSE_MAX entries
\* makes lse the top entry, keeps the entries that were there below it in
\* their order and makes the stack one deeper, and a mpls_lses_pop then gives
\* the stack as it was; mpls_lses_pop on an empty stack changes nothing
C38_PushThenPop ==
    /\ (last.op = "mpls_lses_push" /\ ~last.abort /\ last.prev.n_lses < MPLS_LSE_MAX)
       => /\ last.mpls.lses[1] = last.lse
          /\ last.mpls.n_lses = last.prev.n_lses + 1
          /\ \A i \in 1..last.prev.n_lses : last.mpls.lses[i + 1] = last.prev.lses[i]
          /\ mpls_lses_pop(last.mpls) = last.prev
    /\ (last.op = "mpls_lses_pop" /\ last.prev.n_lses = 0) => last.mpls = last.prev

\* the same but for the top entry after the push
C38_BelowTheTop ==
    /\ (last.op = "mpls_lses_push" /\ ~last.abort /\ last.prev.n_lses < MPLS_LSE_MAX)
       => /\ last.mpls.n_lses = last.prev.n_lses + 1
          /\ \A i \in 1..last.prev.n_lses : last.mpls.lses[i + 1] = last.prev.lses[i]
          /\ mpls_lses_pop(last.mpls) = last.prev
    /\ (last.op = "mpls_lses_pop" /\ last.prev.n_lses = 0) => last.mpls = last.prev

\* an entry with label 2 has been pushed onto a stack whose one entry has
\* label 1: the stack is two deep and its top entry has no label
C38_Witness ==
    /\ last.op = "mpls_lses_push"
    /\ ~last.abort
    /\ last.lse.label = 2
    /\ last.prev.n_lses = 1
    /\ last.prev.lses[1].label = 1
    /\ last.mpls.n_lses = 2
    /\ last.mpls.lses[1] = [label |-> 0, s |-> 1, ttl |-> 0]
    /\ last.mpls.lses[2] = last.prev.lses[1]

-----------------------------------------------------------------------------
(* SpecSetField: set_field_from_openflow turns OpenFlow 1.2 set-field       *)
(* actions into ofpacts at the end of a buffer.                             *)

OXM_OF_IP_DSCP == NXM_HEADER(32768, 8, 1)

\* the fields that mf_from_nxm_header finds for a set-field action: whether
\* they can be written, whether they have an OXM header, and their width
SetFieldMf(header) ==
    IF header \in {OXM_OF_TCP_SRC, NXM_MAKE_WILD_HEADER(OXM_OF_TCP_SRC)}
    THEN {[id |-> "MFF_TCP_SRC", writable |-> TRUE, oxm_header |-> TRUE, n_bytes |-> 2]}
    ELSE IF header = OXM_OF_IP_DSCP
    THEN {[id |-> "MFF_IP_DSCP", writable |-> TRUE, oxm_header |-> TRUE, n_bytes |-> 1]}
    ELSE IF header = OXM_OF_IN_PORT
    THEN {[id |-> "MFF_IN_PORT", writable |-> FALSE, oxm_header |-> TRUE, n_bytes |-> 2]}
    ELSE IF header = NXM_NX_TUN_ID
    THEN {[id |-> "MFF_TUN_ID", writable |-> TRUE, oxm_header |-> FALSE, n_bytes |-> 8]}
    ELSE {}

\* set_field_mf_allowed
set_field_mf_allowed(mf) == mf.writable /\ mf.oxm_header

\* mf_is_value_valid: the two low bits of a DSCP value are clear
set_field_value_valid(mf, value) ==
    mf.id = "MFF_IP_DSCP" => value[1] % 4 = 0

\* ofpact_put_SET_FIELD: a zeroed ofpact at the end of the buffer
ofpact_put_SET_FIELD(ofpacts) ==
    ofpacts \o <<[type |-> "OFPACT_SET_FIELD", mf |-> <<>>, value |-> <<>>]>>

\* what reading mf->writable through a null pointer does is not defined: the
\* read may fault, or may go through and find the field not allowed
NullFieldReads == {"fault", "not allowed"}

\* set_field_from_openflow once it has put the ofpact at the end of the
\* buffer; set_field is the index of that ofpact
set_field_from_openflow_put(oasf, ofpacts, set_field, null) ==
    LET mfs == SetFieldMf(oasf.field)
        mf == CHOOSE m \in mfs : TRUE
        value == SubSeq(oasf.value, 1, mf.n_bytes)
    IN IF NXM_HASMASK(oasf.field)
       THEN [error |-> "OFPERR_OFPBAC_BAD_ARGUMENT", ofpacts |-> ofpacts, abort |-> FALSE]
       ELSE IF oasf.len # ((8 + NXM_LENGTH(oasf.field) + 7) \div 8) * 8
       THEN [error |-> "OFPERR_OFPBAC_BAD_ARGUMENT", ofpacts |-> ofpacts, abort |-> FALSE]
       ELSE IF mfs = {}
       THEN [error |-> "OFPERR_OFPBAC_BAD_ARGUMENT", ofpacts |-> ofpacts,
             abort |-> null = "fault"]
       ELSE IF ~set_field_mf_allowed(mf)
       THEN [error |-> "OFPERR_OFPBAC_BAD_ARGUMENT", ofpacts |-> ofpacts, abort |-> FALSE]
       ELSE IF ~set_field_value_valid(mf, value)
       THEN [error |-> "OFPERR_OFPBMC_BAD_VALUE",
             ofpacts |-> [ofpacts EXCEPT ![set_field].value = value], abort |-> FALSE]
       ELSE [error |-> OK,
             ofpacts |-> [ofpacts EXCEPT ![set_field].value = value,
                                         ![set_field].mf = <<mf.id>>],
             abort |-> FALSE]

\* set_field_from_openflow: the error it returns and the buffer it leaves
set_field_from_openflow(oasf, ofpacts, null) ==
    set_field_from_openflow_put(oasf, ofpact_put_SET_FIELD(ofpacts),
                                Len(ofpacts) + 1, null)

MaxOfpacts == 3        \* the actions of one message

\* the set-field actions of a controller: field is the OXM header, value the
\* bytes after it
SetFieldActions ==
    {[len |-> 16, field |-> OXM_OF_TCP_SRC, value |-> <<0, 80>>],
     [len |-> 8, field |-> OXM_OF_TCP_SRC, value |-> <<0, 80>>],
     [len |-> 16, field |-> NXM_MAKE_WILD_HEADER(OXM_OF_TCP_SRC),
      value |-> <<0, 80, 255, 255>>],
     [len |-> 16, field |-> OXM_OF_IP_DSCP, value |-> <<8>>],
     [len |-> 16, field |-> OXM_OF_IP_DSCP, value |-> <<3>>],
     [len |-> 16, field |-> OXM_OF_IN_PORT, value |-> <<0, 0, 0, 1>>],
     [len |-> 16, field |-> NXM_NX_TUN_ID, value |-> <<0, 0, 0, 0, 0, 0, 0, 5>>],
     [len |-> 16, field |-> NXM_HEADER(1, 120, 2), value |-> <<0, 1>>]}

\* the buffer of ofpacts that the step has left
SetFieldBuffer == IF "ofpacts" \in DOMAIN last THEN last.ofpacts ELSE <<>>

SetFieldFromOpenflow(oasf, null) ==
    /\ last.op \in {"ofproto_create", "set_field_from_openflow"}
    /\ Running
    /\ Len(SetFieldBuffer) < MaxOfpacts
    /\ last' = [op |-> "set_field_from_openflow", oasf |-> oasf,
                before |-> SetFieldBuffer,
                error |-> set_field_from_openflow(oasf, SetFieldBuffer, null).error,
                ofpacts |-> set_field_from_openflow(oasf, SetFieldBuffer, null).ofpacts,
                abort |-> set_field_from_openflow(oasf, SetFieldBuffer, null).abort]
    /\ UNCHANGED <<flowVars, connVars, inbox, arrivals, sent, portVars, switchVars, runVars>>

NextSetField ==
    \E oasf \in SetFieldActions :
    \E null \in (IF SetFieldMf(oasf.field) = {} THEN NullFieldReads ELSE {"fault"}) :
       SetFieldFromOpenflow(oasf, null)

SpecSetField == InitFlow /\ [][NextSetField]_vars

\* C39: when set_field_from_openflow returns an error it leaves the buffer
\* of ofpacts as it found it
C39_RejectLeavesBuffer ==
    (last.op = "set_field_from_openflow" /\ ~last.abort /\ last.error # OK)
    => last.ofpacts = last.before

\* a set-field action with a masked header has been refused after a good
\* one, and the buffer holds a second ofpact, without a field
C39_Witness ==
    /\ last.op = "set_field_from_openflow"
    /\ NXM_HASMASK(last.oasf.field)
    /\ last.error = "OFPERR_OFPBAC_BAD_ARGUMENT"
    /\ Len(last.before) = 1
    /\ last.before[1].mf = <<"MFF_TCP_SRC">>
    /\ Len(last.ofpacts) = 2
    /\ last.ofpacts[1] = last.before[1]
    /\ last.ofpacts[2].mf = <<>>

\* an invalid DSCP value has been refused and is in the buffer
C39_WitnessValue ==
    /\ last.op = "set_field_from_openflow"
    /\ last.error = "OFPERR_OFPBMC_BAD_VALUE"
    /\ Len(last.ofpacts) = Len(last.before) + 1
    /\ last.ofpacts[Len(last.ofpacts)].value = <<3>>

----------------------------------------------------------------------------
(* SpecRun: one call of ofproto_run after another, step by step.  Between   *)
(* calls the provider and the netdev monitor collect port changes and the   *)
(* connections collect messages; at any time something may go wrong in the  *)
(* provider, and stay wrong for as long as it likes.                        *)

MaxPending == 2      \* port changes waiting in the provider, devices in the monitor

\* what port_poll may report of one change: a device name, or ENOBUFS, or an
\* error that passes once it is reported
PollResults ==
    {[error |-> OK, devname |-> "eth0"]}
    \cup {[error |-> e, devname |-> ""] : e \in {"ENOBUFS", "EIO"}}

\* the provider's port_poll: EAGAIN once nothing is pending; an errno for as
\* long as something is wrong
provider_port_poll(changes, wrong) ==
    IF wrong
    THEN [error |-> "EIO", devname |-> "", changes |-> changes]
    ELSE IF changes = <<>>
    THEN [error |-> "EAGAIN", devname |-> "", changes |-> changes]
    ELSE [error |-> Head(changes).error, devname |-> Head(changes).devname,
          changes |-> Tail(changes)]

\* netdev_monitor_poll: the next device that changed, EAGAIN when there is none
netdev_monitor_poll(changes) ==
    IF changes = <<>>
    THEN [error |-> "EAGAIN", devname |-> "", changes |-> changes]
    ELSE [error |-> OK, devname |-> Head(changes), changes |-> Tail(changes)]

\* process_port_change: ENOBUFS rescans every port, 0 updates the device
\* named, any other error is passed over
process_port_change(pt, error, devname, order, env) ==
    IF error = "ENOBUFS"
    THEN reinit_loop(pt, order, 1, dp, devs, env)
    ELSE IF error = OK
    THEN update_port_env(pt, devname, dp, devs, env)
    ELSE pt

\* the provider environments process_port_change may meet
ChangeEnvs(error, devname) ==
    IF error = "ENOBUFS" THEN PortEnvs(reinit_names(PortTable, dp))
    ELSE IF error = OK THEN PortEnvs({devname})
    ELSE PortEnvs({})

ChangeOrders(error) ==
    IF error = "ENOBUFS" THEN Orders(reinit_names(PortTable, dp)) ELSE {<<>>}

\* the host loop calls ofproto_run
ofproto_run_call ==
    /\ initialized
    /\ run_pc = "idle"
    /\ run_pc' = "run"
    /\ sent' = Broadcast(<<>>)
    /\ last' = [op |-> "ofproto_run_call"]
    /\ UNCHANGED <<flowVars, connVars, inbox, arrivals, portVars, switchVars,
                   port_changes, failing, netdev_changes>>

\* ofproto_run: the provider's run() finds the datapath destroyed
ofproto_run_ENODEV ==
    /\ run_pc = "run"
    /\ run_pc' = "idle"
    /\ sent' = Broadcast(<<>>)
    /\ last' = [op |-> "ofproto_run", err |-> "ENODEV"]
    /\ UNCHANGED <<flowVars, connVars, inbox, arrivals, portVars, switchVars,
                   port_changes, failing, netdev_changes>>

\* ofproto_run: the provider's run() has done its work
ofproto_run_class_run ==
    /\ run_pc = "run"
    /\ run_pc' = "port_poll"
    /\ sent' = Broadcast(<<>>)
    /\ last' = [op |-> "class_run", err |-> OK]
    /\ UNCHANGED <<flowVars, connVars, inbox, arrivals, portVars, switchVars,
                   port_changes, failing, netdev_changes>>

\* ofproto_run, first loop: port_poll has something other than EAGAIN
ofproto_run_port_poll(r, order, env) ==
    /\ run_pc = "port_poll"
    /\ r.error # "EAGAIN"
    /\ SetPortTable(process_port_change(PortTable, r.error, r.devname, order, env),
                    "port_poll", <<r.error, r.devname>>)
    /\ port_changes' = r.changes
    /\ UNCHANGED <<flowVars, connVars, inbox, arrivals, dp, devs, initialized,
                   switchVars, run_pc, failing, netdev_changes>>

\* ofproto_run, first loop: port_poll answers EAGAIN and the loop ends
ofproto_run_port_poll_EAGAIN(r) ==
    /\ run_pc = "port_poll"
    /\ r.error = "EAGAIN"
    /\ run_pc' = "netdev_monitor_poll"
    /\ sent' = Broadcast(<<>>)
    /\ last' = [op |-> "port_poll", arg |-> <<r.error, r.devname>>]
    /\ UNCHANGED <<flowVars, connVars, inbox, arrivals, portVars, switchVars,
                   port_changes, failing, netdev_changes>>

\* ofproto_run, second loop: netdev_monitor_poll names a device
ofproto_run_netdev_monitor_poll(r, env) ==
    /\ run_pc = "netdev_monitor_poll"
    /\ r.error # "EAGAIN"
    /\ SetPortTable(process_port_change(PortTable, r.error, r.devname, <<>>, env),
                    "netdev_monitor_poll", <<r.error, r.devname>>)
    /\ netdev_changes' = r.changes
    /\ UNCHANGED <<flowVars, connVars, inbox, arrivals, dp, devs, initialized,
                   switchVars, run_pc, port_changes, failing>>

\* ofproto_run, second loop: netdev_monitor_poll answers EAGAIN and the loop ends
ofproto_run_netdev_monitor_poll_EAGAIN(r) ==
    /\ run_pc = "netdev_monitor_poll"
    /\ r.error = "EAGAIN"
    /\ run_pc' = "connmgr_run"
    /\ sent' = Broadcast(<<>>)
    /\ last' = [op |-> "netdev_monitor_poll", arg |-> <<r.error, r.devname>>]
    /\ UNCHANGED <<flowVars, connVars, inbox, arrivals, portVars, switchVars,
                   port_changes, failing, netdev_changes>>

\* ofproto_run: connmgr_run hands a waiting message to handle_openflow
ofproto_run_connmgr_run(c, env) ==
    /\ run_pc = "connmgr_run"
    /\ connmgr_run(c, env)

\* ofproto_run: connmgr_run has nothing left to hand over, and 0 is returned
ofproto_run_return ==
    /\ run_pc = "connmgr_run"
    /\ \A c \in Conns : inbox[c] = <<>>
    /\ run_pc' = "idle"
    /\ sent' = Broadcast(<<>>)
    /\ last' = [op |-> "ofproto_run", err |-> OK]
    /\ UNCHANGED <<flowVars, connVars, inbox, arrivals, portVars, switchVars,
                   port_changes, failing, netdev_changes>>

\* the steps of a call of ofproto_run that is in progress
RunStep ==
    \/ ofproto_run_ENODEV
    \/ ofproto_run_class_run
    \/ \E order \in ChangeOrders(provider_port_poll(port_changes, failing).error) :
          \E env \in ChangeEnvs(provider_port_poll(port_changes, failing).error,
                                 provider_port_poll(port_changes, failing).devname) :
             ofproto_run_port_poll(provider_port_poll(port_changes, failing), order, env)
    \/ ofproto_run_port_poll_EAGAIN(provider_port_poll(port_changes, failing))
    \/ \E env \in ChangeEnvs(netdev_monitor_poll(netdev_changes).error,
                              netdev_monitor_poll(netdev_changes).devname) :
          ofproto_run_netdev_monitor_poll(netdev_monitor_poll(netdev_changes), env)
    \/ ofproto_run_netdev_monitor_poll_EAGAIN(netdev_monitor_poll(netdev_changes))
    \/ \E c \in {k \in Conns : inbox[k] # <<>>} :
          \E env \in MsgEnvs(Head(inbox[c])) : ofproto_run_connmgr_run(c, env)
    \/ ofproto_run_return

\* between calls, the provider learns of a port change
PortChanges(change) ==
    /\ run_pc = "idle"
    /\ Len(port_changes) < MaxPending
    /\ port_changes' = Append(port_changes, change)
    /\ sent' = Broadcast(<<>>)
    /\ last' = [op |-> "port_changes", arg |-> <<change.error, change.devname>>]
    /\ UNCHANGED <<flowVars, connVars, inbox, arrivals, portVars, switchVars,
                   run_pc, failing, netdev_changes>>

\* between calls, a device changes and the netdev monitor takes note
NetdevChanges(name, d) ==
    /\ run_pc = "idle"
    /\ Len(netdev_changes) < MaxPending
    /\ devs[name] # d
    /\ devs' = [devs EXCEPT ![name] = d]
    /\ netdev_changes' = Append(netdev_changes, name)
    /\ sent' = Broadcast(<<>>)
    /\ last' = [op |-> "device", arg |-> name, calls |-> <<>>]
    /\ UNCHANGED <<flowVars, connVars, inbox, arrivals, ports, port_by_name,
                   netdevs, dp, initialized, switchVars, run_pc, port_changes,
                   failing>>

\* something goes wrong in the provider, or comes right again
ProviderFails(wrong) ==
    /\ failing # wrong
    /\ failing' = wrong
    /\ UNCHANGED <<flowVars, connVars, inbox, arrivals, sent, last, portVars,
                   switchVars, run_pc, port_changes, netdev_changes>>

\* between calls, a message arrives on the primary connection
RunArrive(tb) ==
    /\ run_pc = "idle"
    /\ Arrive(1, tb)

RunBodies == {tb \in OrderBodies : tb[1] = "BARRIER_REQUEST"}

NextRun ==
    \/ ofproto_run_call
    \/ RunStep
    \/ \E change \in PollResults : PortChanges(change)
    \/ \E d \in {x \in DevStates : x.hw_addr = 1} : NetdevChanges("eth0", d)
    \/ \E wrong \in BOOLEAN : ProviderFails(wrong)
    \/ \E tb \in RunBodies : RunArrive(tb)

\* a call in progress takes its next step; nothing obliges the host loop to
\* call again, the changes to come, or the provider to come right
SpecRun == InitDisp /\ [][NextRun]_vars /\ WF_vars(RunStep)

\* a call of ofproto_run is in progress
RunInProgress == run_pc # "idle"

\* the call has returned, and with 0 only once every waiting message was handed over
RunReturned ==
    /\ run_pc = "idle"
    /\ last.op = "ofproto_run"
    /\ last.err = OK => \A c \in Conns : inbox[c] = <<>>

\* C40: every call of ofproto_run returns: whatever port_poll answers (a
\* device name, ENOBUFS, another error, EAGAIN), with finitely many port
\* changes pending the two loops end and the waiting messages are dispatched
C40_RunReturns == RunInProgress ~> RunReturned

\* the same while what has gone wrong in the provider does not last
C40_ReturnsOnceRight == (<>[]~failing) => (RunInProgress ~> RunReturned)

\* port_poll fails while a change is pending and the first loop is polling
C40_Witness ==
    /\ run_pc = "port_poll"
    /\ failing
    /\ port_changes # <<>>
    /\ last.op = "port_poll"
    /\ last.arg = <<"EIO", "">>

====
